---- MODULE Spec2Model ----
(***************************************************************************)
(* Lending-circle protocol: CreditRegistry, ReservePool and one            *)
(* LendingCircle instance, modelled from the Solidity sources.             *)
(*                                                                         *)
(* Every external call of a contract is one atomic action.  A call whose   *)
(* require() fails reverts and leaves the chain state as it was, so the    *)
(* action of a handler is enabled exactly when all its requires pass.      *)
(***************************************************************************)
EXTENDS Integers, Sequences, FiniteSets, TLC

(***************************************************************************)
(* Identities                                                              *)
(***************************************************************************)
ZERO == "0x0"                 \* address(0)
CREATOR == "c"                \* the account that creates the circle
Users == {CREATOR, "a", "b"}  \* externally owned accounts
Addr == Users \cup {ZERO}     \* values an address argument can take
CIRCLE == "circle"            \* address(this) of the LendingCircle
POOL == "pool"                \* address of the ReservePool
DEPLOYER == "deployer"        \* account that deployed the ReservePool
FACTORY == "factory"          \* address of the LendingCircleFactory
PoolAddr == Addr \cup {CIRCLE, POOL, DEPLOYER}

(***************************************************************************)
(* Bounds of the model                                                     *)
(***************************************************************************)
MaxOnTimeCalls == 71      \* direct recordOnTimePayment calls for the first
                          \* identity (ledger spec)
MaxOtherOnTimeCalls == 0  \* the same for every other identity (ledger spec)
MaxLateCalls == 1         \* direct recordLatePayment calls (ledger spec)
MaxDefaultCalls == 3      \* direct recordDefault calls (ledger spec)
MaxCompletionCalls == 1   \* direct recordCircleCompletion calls (ledger spec)
MaxJoinCalls == 1         \* direct recordCircleJoin calls (ledger spec)
MaxPoolDeposited == 4     \* cap on ReservePool.totalDeposited (pool spec)
MaxPoolValue == 2         \* largest msg.value / amount of a direct pool call

(***************************************************************************)
(* CreditRegistry                                                          *)
(***************************************************************************)
BASE_CREDIT_SCORE == 300
MAX_CREDIT_SCORE == 1000
MIN_CREDIT_SCORE == 0
ON_TIME_PAYMENT_BONUS == 10
LATE_PAYMENT_PENALTY == 20
DEFAULT_PENALTY == 100
CIRCLE_COMPLETION_BONUS == 15

\* The value of a storage slot of type CreditProfile that was never written.
ZeroProfile ==
    [creditScore |-> 0, circlesJoined |-> 0, circlesCompleted |-> 0,
     onTimePayments |-> 0, latePayments |-> 0, defaults |-> 0,
     hasDefaulted |-> FALSE]

\* A registry is the record [creditProfiles, hasProfile] of its two mappings.
getCreditScore(reg, participant) ==
    IF ~reg.hasProfile[participant]
    THEN BASE_CREDIT_SCORE
    ELSE reg.creditProfiles[participant].creditScore

getCreditProfile(reg, participant) ==
    IF ~reg.hasProfile[participant]
    THEN [ZeroProfile EXCEPT !.creditScore = BASE_CREDIT_SCORE]
    ELSE reg.creditProfiles[participant]

\* A new profile left at the storage default instead of the base score.
_ensureProfile_zeroScore(reg, participant) ==
    IF ~reg.hasProfile[participant]
    THEN [creditProfiles |->
              [reg.creditProfiles EXCEPT ![participant] = ZeroProfile],
          hasProfile |-> [reg.hasProfile EXCEPT ![participant] = TRUE]]
    ELSE reg

_ensureProfile(reg, participant) ==
    IF ~reg.hasProfile[participant]
    THEN [creditProfiles |->
              [reg.creditProfiles EXCEPT ![participant] =
                  [ZeroProfile EXCEPT !.creditScore = BASE_CREDIT_SCORE]],
          hasProfile |-> [reg.hasProfile EXCEPT ![participant] = TRUE]]
    ELSE reg

\* recordOnTimePayment without the cap at MAX_CREDIT_SCORE.
CreditRegistry_recordOnTimePayment_uncapped(reg, participant) ==
    LET r == _ensureProfile(reg, participant)
        previousScore == r.creditProfiles[participant].creditScore
    IN [r EXCEPT !.creditProfiles[participant].onTimePayments = @ + 1,
                 !.creditProfiles[participant].creditScore =
                     previousScore + ON_TIME_PAYMENT_BONUS]

CreditRegistry_recordOnTimePayment(reg, participant) ==
    LET r == _ensureProfile(reg, participant)
        previousScore == r.creditProfiles[participant].creditScore
        sum == previousScore + ON_TIME_PAYMENT_BONUS
        newScore == IF sum > MAX_CREDIT_SCORE THEN MAX_CREDIT_SCORE ELSE sum
    IN [r EXCEPT !.creditProfiles[participant].onTimePayments = @ + 1,
                 !.creditProfiles[participant].creditScore = newScore]

CreditRegistry_recordLatePayment(reg, participant) ==
    LET r == _ensureProfile(reg, participant)
        previousScore == r.creditProfiles[participant].creditScore
        newScore == IF previousScore >= LATE_PAYMENT_PENALTY
                    THEN previousScore - LATE_PAYMENT_PENALTY
                    ELSE MIN_CREDIT_SCORE
    IN [r EXCEPT !.creditProfiles[participant].latePayments = @ + 1,
                 !.creditProfiles[participant].creditScore = newScore]

CreditRegistry_recordDefault(reg, participant) ==
    LET r == _ensureProfile(reg, participant)
        previousScore == r.creditProfiles[participant].creditScore
        newScore == IF previousScore >= DEFAULT_PENALTY
                    THEN previousScore - DEFAULT_PENALTY
                    ELSE MIN_CREDIT_SCORE
    IN [r EXCEPT !.creditProfiles[participant].defaults = @ + 1,
                 !.creditProfiles[participant].hasDefaulted = TRUE,
                 !.creditProfiles[participant].creditScore = newScore]

\* recordCircleCompletion granting the on-time bonus in place of its own.
CreditRegistry_recordCircleCompletion_onTimeBonus(reg, participant) ==
    LET r == _ensureProfile(reg, participant)
        previousScore == r.creditProfiles[participant].creditScore
        sum == previousScore + ON_TIME_PAYMENT_BONUS
        newScore == IF sum > MAX_CREDIT_SCORE THEN MAX_CREDIT_SCORE ELSE sum
    IN [r EXCEPT !.creditProfiles[participant].circlesCompleted = @ + 1,
                 !.creditProfiles[participant].creditScore = newScore]

CreditRegistry_recordCircleCompletion(reg, participant) ==
    LET r == _ensureProfile(reg, participant)
        previousScore == r.creditProfiles[participant].creditScore
        sum == previousScore + CIRCLE_COMPLETION_BONUS
        newScore == IF sum > MAX_CREDIT_SCORE THEN MAX_CREDIT_SCORE ELSE sum
    IN [r EXCEPT !.creditProfiles[participant].circlesCompleted = @ + 1,
                 !.creditProfiles[participant].creditScore = newScore]

CreditRegistry_recordCircleJoin(reg, participant) ==
    LET r == _ensureProfile(reg, participant)
    IN [r EXCEPT !.creditProfiles[participant].circlesJoined = @ + 1]

(***************************************************************************)
(* ReservePool                                                             *)
(*                                                                         *)
(* A pool is the record of its storage.  Each function returns             *)
(* [ok, pool]: ok = FALSE is a revert.  The outward transfer of withdraw   *)
(* is the caller's business (transferOk says whether the recipient         *)
(* accepted the value); withdraw has no code after it but an event.        *)
(***************************************************************************)
ReservePool_constructor(sender) ==
    [factory |-> sender,
     verifiedCircles |-> [x \in PoolAddr |-> FALSE],
     totalDeposited |-> 0, totalWithdrawn |-> 0, currentBalance |-> 0]

verifyCircle(rp, sender, circle) ==
    IF sender = rp.factory /\ circle # ZERO
    THEN [ok |-> TRUE, pool |-> [rp EXCEPT !.verifiedCircles[circle] = TRUE]]
    ELSE [ok |-> FALSE, pool |-> rp]

revokeCircle(rp, sender, circle) ==
    IF sender = rp.factory
    THEN [ok |-> TRUE, pool |-> [rp EXCEPT !.verifiedCircles[circle] = FALSE]]
    ELSE [ok |-> FALSE, pool |-> rp]

deposit(rp, sender, value) ==
    IF rp.verifiedCircles[sender] /\ value > 0
    THEN [ok |-> TRUE,
          pool |-> [rp EXCEPT !.totalDeposited = @ + value,
                              !.currentBalance = @ + value]]
    ELSE [ok |-> FALSE, pool |-> rp]

\* withdraw without the check of currentBalance against the amount.
withdraw_overdrawn(rp, sender, amount, recipient, transferOk) ==
    IF /\ rp.verifiedCircles[sender]
       /\ amount > 0
       /\ recipient # ZERO
       /\ transferOk
    THEN [ok |-> TRUE,
          pool |-> [rp EXCEPT !.currentBalance = @ - amount,
                              !.totalWithdrawn = @ + amount]]
    ELSE [ok |-> FALSE, pool |-> rp]

\* withdraw without the onlyVerifiedCircle modifier.
withdraw_unverified(rp, sender, amount, recipient, transferOk) ==
    IF /\ amount > 0
       /\ recipient # ZERO
       /\ rp.currentBalance >= amount
       /\ transferOk
    THEN [ok |-> TRUE,
          pool |-> [rp EXCEPT !.currentBalance = @ - amount,
                              !.totalWithdrawn = @ + amount]]
    ELSE [ok |-> FALSE, pool |-> rp]

withdraw(rp, sender, amount, recipient, transferOk) ==
    IF /\ rp.verifiedCircles[sender]
       /\ amount > 0
       /\ recipient # ZERO
       /\ rp.currentBalance >= amount
       /\ transferOk
    THEN [ok |-> TRUE,
          pool |-> [rp EXCEPT !.currentBalance = @ - amount,
                              !.totalWithdrawn = @ + amount]]
    ELSE [ok |-> FALSE, pool |-> rp]

\* getUtilizationRate in percent instead of basis points.
getUtilizationRate_percent(rp) ==
    IF rp.totalDeposited = 0
    THEN 0
    ELSE (rp.totalWithdrawn * 100) \div rp.totalDeposited

getUtilizationRate(rp) ==
    IF rp.totalDeposited = 0
    THEN 0
    ELSE (rp.totalWithdrawn * 10000) \div rp.totalDeposited

\* receive that counts the deposit but forgets to raise currentBalance.
ReservePool_receive_unbalanced(rp, sender, value) ==
    IF rp.verifiedCircles[sender]
    THEN [ok |-> TRUE, pool |-> [rp EXCEPT !.totalDeposited = @ + value]]
    ELSE [ok |-> FALSE, pool |-> rp]

ReservePool_receive(rp, sender, value) ==
    IF rp.verifiedCircles[sender]
    THEN [ok |-> TRUE,
          pool |-> [rp EXCEPT !.totalDeposited = @ + value,
                              !.currentBalance = @ + value]]
    ELSE [ok |-> FALSE, pool |-> rp]

(***************************************************************************)
(* LendingCircle: storage                                                  *)
(***************************************************************************)
MaxMonthArg == 2          \* month arguments range over 0..MaxMonthArg
MonthArgs == 0..MaxMonthArg

VARIABLES
    creditRegistry,         \* the CreditRegistry instance
    reservePool,            \* the ReservePool instance
    deployed,               \* TRUE once the LendingCircle constructor has run
    params,                 \* creator, monthlyContribution, durationInMonths,
                            \* minParticipants, maxParticipants,
                            \* reservePercentage, excessDistributionMethod
    coordinator,
    status,
    currentMonth,
    totalParticipants,
    poolBalance,
    totalReserveDeposited,
    participants,           \* address -> Participant
    participantList,        \* address[]
    payoutProposals,        \* month -> PayoutProposal
    _locked,                \* the nonReentrant flag
    now,                    \* block.timestamp, in days
    circleEth,              \* address(this).balance of the circle
    events,                 \* what the circle's events have reported so far
    factory,                \* circles, isCircle, userCircles of the factory
    payoutCall,             \* the executePayout suspended in its transfer, if any
    listing                 \* the last getCircles call and what it returned

vars == <<creditRegistry, reservePool, deployed, params, coordinator, status,
          currentMonth, totalParticipants, poolBalance, totalReserveDeposited,
          participants, participantList, payoutProposals, _locked, now,
          circleEth, events, factory, payoutCall, listing>>

circleVars == <<deployed, params, coordinator, status, currentMonth,
                totalParticipants, poolBalance, totalReserveDeposited,
                participants, participantList, payoutProposals, _locked,
                circleEth, events>>

\* Storage slots that were never written hold the zero value of their type.
ZeroParticipant ==
    [participant |-> ZERO, isActive |-> FALSE, hasReceivedPayout |-> FALSE,
     isInDefault |-> FALSE, withdrawableBalance |-> 0,
     monthlyPayments |-> [m \in MonthArgs |-> FALSE]]

ZeroCandidate ==
    [candidate |-> ZERO, proposer |-> ZERO, totalVotes |-> 0,
     isActive |-> FALSE]

ZeroVote ==
    [voter |-> ZERO, candidate |-> ZERO, weight |-> 0, hasVoted |-> FALSE]

ZeroProposal ==
    [endTime |-> 0, executed |-> FALSE, winner |-> ZERO,
     candidates |-> [x \in Addr |-> ZeroCandidate],
     candidateList |-> <<>>,
     votes |-> [x \in Addr |-> ZeroVote],
     voters |-> <<>>]

ZeroParams ==
    [creator |-> ZERO, monthlyContribution |-> 0, durationInMonths |-> 0,
     minParticipants |-> 0, maxParticipants |-> 0, reservePercentage |-> 0,
     excessDistributionMethod |-> "WITHDRAWABLE"]

votingPeriod == 7         \* 7 days

\* The circle's event log, as far as it is read here: the PayoutExecuted
\* events in order, the participants named by DefaultRecorded events, and
\* the number of ContributionMade and of LatePaymentRecorded events per
\* participant and month.
NoEvents ==
    [PayoutExecuted |-> <<>>,
     DefaultRecorded |-> {},
     ContributionMade |-> [x \in Addr |-> [m \in MonthArgs |-> 0]],
     LatePaymentRecorded |-> [x \in Addr |-> [m \in MonthArgs |-> 0]]]

\* getCircles has not been called.
NoListing == [called |-> FALSE, offset |-> 0, limit |-> 0, ok |-> TRUE, result |-> <<>>]

\* No executePayout is suspended in its transfer to the recipient.
NoCall == [active |-> FALSE, recipient |-> ZERO, payoutAmount |-> 0, month |-> 0]

\* LendingCircleFactory's storage after its constructor: no circle yet.
LendingCircleFactory_constructor ==
    [circles |-> <<>>,
     isCircle |-> [x \in PoolAddr |-> FALSE],
     userCircles |-> [x \in Addr |-> <<>>]]

(***************************************************************************)
(* The chain after CreditRegistry, ReservePool and LendingCircleFactory    *)
(* have been deployed, in this order, by one account; the circle's own     *)
(* storage is all zero until its constructor runs.                         *)
(***************************************************************************)
Init ==
    /\ creditRegistry = [creditProfiles |-> [x \in Addr |-> ZeroProfile],
                         hasProfile |-> [x \in Addr |-> FALSE]]
    /\ reservePool = ReservePool_constructor(DEPLOYER)
    /\ factory = LendingCircleFactory_constructor
    /\ payoutCall = NoCall
    /\ listing = NoListing
    /\ deployed = FALSE
    /\ params = ZeroParams
    /\ coordinator = ZERO
    /\ status = "PENDING"
    /\ currentMonth = 0
    /\ totalParticipants = 0
    /\ poolBalance = 0
    /\ totalReserveDeposited = 0
    /\ participants = [x \in Addr |-> ZeroParticipant]
    /\ participantList = <<>>
    /\ payoutProposals = [m \in MonthArgs |-> ZeroProposal]
    /\ _locked = FALSE
    /\ now = 0
    /\ circleEth = 0
    /\ events = NoEvents

(***************************************************************************)
(* Direct calls of the CreditRegistry: its functions are external and      *)
(* unrestricted, so any account can make them.                             *)
(***************************************************************************)
LedgerIds == {"a", "b"}

RECURSIVE SumOver(_, _)
SumOver(S, f) ==
    IF S = {} THEN 0
    ELSE LET x == CHOOSE y \in S : TRUE IN f[x] + SumOver(S \ {x}, f)

Counted(field) ==
    SumOver(LedgerIds, [x \in LedgerIds |-> creditRegistry.creditProfiles[x][field]])

RegistryOnTimePayment(participant) ==
    /\ creditRegistry' = CreditRegistry_recordOnTimePayment(creditRegistry, participant)
    /\ UNCHANGED <<reservePool, circleVars, factory, payoutCall, listing, now>>

RegistryLatePayment(participant) ==
    /\ creditRegistry' = CreditRegistry_recordLatePayment(creditRegistry, participant)
    /\ UNCHANGED <<reservePool, circleVars, factory, payoutCall, listing, now>>

RegistryDefault(participant) ==
    /\ creditRegistry' = CreditRegistry_recordDefault(creditRegistry, participant)
    /\ UNCHANGED <<reservePool, circleVars, factory, payoutCall, listing, now>>

RegistryCircleCompletion(participant) ==
    /\ creditRegistry' = CreditRegistry_recordCircleCompletion(creditRegistry, participant)
    /\ UNCHANGED <<reservePool, circleVars, factory, payoutCall, listing, now>>

RegistryCircleJoin(participant) ==
    /\ creditRegistry' = CreditRegistry_recordCircleJoin(creditRegistry, participant)
    /\ UNCHANGED <<reservePool, circleVars, factory, payoutCall, listing, now>>

\* On-time payments are bounded per identity, the other calls by the
\* number of calls of their kind made so far on all identities.
OnTimeCallsLeft(participant) ==
    creditRegistry.creditProfiles[participant].onTimePayments <
        (IF participant = "a" THEN MaxOnTimeCalls ELSE MaxOtherOnTimeCalls)

NextLedger ==
    \/ \E participant \in LedgerIds :
           /\ OnTimeCallsLeft(participant)
           /\ RegistryOnTimePayment(participant)
    \/ /\ Counted("latePayments") < MaxLateCalls
       /\ \E participant \in LedgerIds : RegistryLatePayment(participant)
    \/ /\ Counted("defaults") < MaxDefaultCalls
       /\ \E participant \in LedgerIds : RegistryDefault(participant)
    \/ /\ Counted("circlesCompleted") < MaxCompletionCalls
       /\ \E participant \in LedgerIds : RegistryCircleCompletion(participant)
    \/ /\ Counted("circlesJoined") < MaxJoinCalls
       /\ \E participant \in LedgerIds : RegistryCircleJoin(participant)

SpecLedger == Init /\ [][NextLedger]_vars

(***************************************************************************)
(* LendingCircle.receive: any value sent to the circle is added to the     *)
(* pool.  Before the constructor has run the address has no code and the   *)
(* value is simply credited to it.                                         *)
(***************************************************************************)
LendingCircle_receive(value) ==
    /\ poolBalance' = IF deployed THEN poolBalance + value ELSE poolBalance
    /\ circleEth' = circleEth + value

(***************************************************************************)
(* Direct calls of the ReservePool                                         *)
(***************************************************************************)
PoolVerifyCircle(sender, circle) ==
    LET r == verifyCircle(reservePool, sender, circle)
    IN /\ r.ok
       /\ reservePool' = r.pool
       /\ UNCHANGED <<creditRegistry, circleVars, factory, payoutCall, listing, now>>

PoolRevokeCircle(sender, circle) ==
    LET r == revokeCircle(reservePool, sender, circle)
    IN /\ r.ok
       /\ reservePool' = r.pool
       /\ UNCHANGED <<creditRegistry, circleVars, factory, payoutCall, listing, now>>

PoolDeposit(sender, value) ==
    LET r == deposit(reservePool, sender, value)
    IN /\ r.ok
       /\ reservePool' = r.pool
       /\ UNCHANGED <<creditRegistry, circleVars, factory, payoutCall, listing, now>>

PoolReceive(sender, value) ==
    LET r == ReservePool_receive(reservePool, sender, value)
    IN /\ r.ok
       /\ reservePool' = r.pool
       /\ UNCHANGED <<creditRegistry, circleVars, factory, payoutCall, listing, now>>

\* withdraw(amount, recipient) called by sender.  The transfer to the circle
\* runs LendingCircle.receive, the transfer to the pool itself runs
\* ReservePool.receive (which may revert), any other recipient is an account
\* that takes the value.
PoolWithdraw(sender, amount, recipient) ==
    LET back == ReservePool_receive(
                    [reservePool EXCEPT !.currentBalance = @ - amount,
                                        !.totalWithdrawn = @ + amount],
                    POOL, amount)
        transferOk == IF recipient = POOL THEN back.ok ELSE TRUE
        r == withdraw(reservePool, sender, amount, recipient, transferOk)
    IN /\ r.ok
       /\ reservePool' = IF recipient = POOL THEN back.pool ELSE r.pool
       /\ IF recipient = CIRCLE
          THEN /\ LendingCircle_receive(amount)
               /\ UNCHANGED <<deployed, params, coordinator, factory, payoutCall, listing, status,
                              currentMonth, totalParticipants,
                              totalReserveDeposited, participants,
                              participantList, payoutProposals, _locked,
                              events>>
          ELSE UNCHANGED <<circleVars, factory, payoutCall, listing>>
       /\ UNCHANGED <<creditRegistry, now>>

\* Accounts that call the pool directly, and the addresses they name.
PoolCallers == {DEPLOYER, "a", "b"}
PoolTargets == {ZERO, CIRCLE, POOL, "a", "b"}

\* Value enters the pool only while totalDeposited stays within its cap.
NextPool ==
    \E sender \in PoolCallers :
        \/ \E circle \in PoolTargets : PoolVerifyCircle(sender, circle)
        \/ \E circle \in PoolTargets : PoolRevokeCircle(sender, circle)
        \/ \E value \in 0..MaxPoolValue :
               /\ reservePool.totalDeposited + value <= MaxPoolDeposited
               /\ PoolDeposit(sender, value)
        \/ \E value \in 0..MaxPoolValue :
               /\ reservePool.totalDeposited + value <= MaxPoolDeposited
               /\ PoolReceive(sender, value)
        \/ \E amount \in 0..MaxPoolValue, recipient \in PoolTargets :
               /\ recipient = POOL =>
                      reservePool.totalDeposited + amount <= MaxPoolDeposited
               /\ PoolWithdraw(sender, amount, recipient)

SpecPool == Init /\ [][NextPool]_vars

(***************************************************************************)
(* LendingCircle: construction and admission                               *)
(***************************************************************************)
MaxCirclesJoined == 2     \* cap on a profile's circlesJoined (join requests)

\* Arguments offered to the constructor.
ContributionChoices == {0, 3}
DurationChoices == {2}
MinParticipantsChoices == {1, 2, 3}
MaxParticipantsChoices == {3}
ReserveChoices == {0, 34}
MethodChoices == {"WITHDRAWABLE", "AUTO_DEDUCT"}

MAX_CONTRIBUTION_PER_CREDIT == 1     \* in ether per credit point
MAX_PARTICIPANTS_PER_CREDIT == 1
MAX_EXPOSURE_PER_CREDIT == 10        \* in ether per credit point

\* amount <= credit * perCredit ether, for an amount in wei.  Every amount of
\* the model is below one ether (10^18 wei), so the limit is met as soon as
\* the right-hand side is at least one ether.
WithinEtherLimit(amount, credit, perCredit) ==
    IF credit * perCredit >= 1 THEN TRUE ELSE amount = 0

\* The constructor without the require of at least two participants.
LendingCircle_constructor_anyMinimum(_creator, _monthlyContribution, _durationInMonths, _minParticipants, _maxParticipants, _reservePercentage, _excessDistributionMethod) ==
    LET creatorCredit == getCreditScore(creditRegistry, _creator) IN
    /\ ~deployed
    /\ _creator # ZERO
    /\ _monthlyContribution > 0
    /\ _durationInMonths > 0
    /\ _maxParticipants >= _minParticipants
    /\ _reservePercentage <= 100
    /\ WithinEtherLimit(_monthlyContribution, creatorCredit,
                        MAX_CONTRIBUTION_PER_CREDIT)
    /\ _maxParticipants <= creatorCredit * MAX_PARTICIPANTS_PER_CREDIT
    /\ WithinEtherLimit(_monthlyContribution * _maxParticipants * _durationInMonths,
                        creatorCredit, MAX_EXPOSURE_PER_CREDIT)
    /\ deployed' = TRUE
    /\ params' = [creator |-> _creator,
                  monthlyContribution |-> _monthlyContribution,
                  durationInMonths |-> _durationInMonths,
                  minParticipants |-> _minParticipants,
                  maxParticipants |-> _maxParticipants,
                  reservePercentage |-> _reservePercentage,
                  excessDistributionMethod |-> _excessDistributionMethod]
    /\ coordinator' = _creator
    /\ status' = "PENDING"
    /\ currentMonth' = 0
    /\ participants' = [participants EXCEPT
                            ![_creator].participant = _creator,
                            ![_creator].isActive = TRUE]
    /\ participantList' = Append(participantList, _creator)
    /\ totalParticipants' = 1
    /\ creditRegistry' = CreditRegistry_recordCircleJoin(creditRegistry, _creator)
    /\ UNCHANGED <<poolBalance, totalReserveDeposited, payoutProposals,
                   _locked, now, circleEth, events, payoutCall, listing>>

\* The constructor's requires and its writes to the circle and the registry.
LendingCircle_constructor(_creator, _monthlyContribution, _durationInMonths, _minParticipants, _maxParticipants, _reservePercentage, _excessDistributionMethod) ==
    LET creatorCredit == getCreditScore(creditRegistry, _creator) IN
    /\ ~deployed
    /\ _creator # ZERO
    /\ _monthlyContribution > 0
    /\ _durationInMonths > 0
    /\ _minParticipants >= 2
    /\ _maxParticipants >= _minParticipants
    /\ _reservePercentage <= 100
    /\ WithinEtherLimit(_monthlyContribution, creatorCredit,
                        MAX_CONTRIBUTION_PER_CREDIT)
    /\ _maxParticipants <= creatorCredit * MAX_PARTICIPANTS_PER_CREDIT
    /\ WithinEtherLimit(_monthlyContribution * _maxParticipants * _durationInMonths,
                        creatorCredit, MAX_EXPOSURE_PER_CREDIT)
    /\ deployed' = TRUE
    /\ params' = [creator |-> _creator,
                  monthlyContribution |-> _monthlyContribution,
                  durationInMonths |-> _durationInMonths,
                  minParticipants |-> _minParticipants,
                  maxParticipants |-> _maxParticipants,
                  reservePercentage |-> _reservePercentage,
                  excessDistributionMethod |-> _excessDistributionMethod]
    /\ coordinator' = _creator
    /\ status' = "PENDING"
    /\ currentMonth' = 0
    /\ participants' = [participants EXCEPT
                            ![_creator].participant = _creator,
                            ![_creator].isActive = TRUE]
    /\ participantList' = Append(participantList, _creator)
    /\ totalParticipants' = 1
    /\ creditRegistry' = CreditRegistry_recordCircleJoin(creditRegistry, _creator)
    /\ UNCHANGED <<poolBalance, totalReserveDeposited, payoutProposals,
                   _locked, now, circleEth, events, payoutCall, listing>>

\* new LendingCircle(...) sent by an account of its own.
constructor(_creator, _monthlyContribution, _durationInMonths, _minParticipants, _maxParticipants, _reservePercentage, _excessDistributionMethod) ==
    /\ LendingCircle_constructor(_creator, _monthlyContribution, _durationInMonths, _minParticipants, _maxParticipants, _reservePercentage, _excessDistributionMethod)
    /\ UNCHANGED <<reservePool, factory>>

\* LendingCircleFactory.createCircle called by sender.  The factory calls
\* ReservePool.verifyCircle as itself; a failure there fails the whole call.
createCircle(sender, monthlyContribution, durationInMonths, minParticipants, maxParticipants, reservePercentage, excessDistributionMethod) ==
    LET creatorCredit == getCreditScore(creditRegistry, sender)
        verified == verifyCircle(reservePool, FACTORY, CIRCLE)
    IN /\ creatorCredit >= 300
       /\ LendingCircle_constructor(sender, monthlyContribution, durationInMonths, minParticipants, maxParticipants, reservePercentage, excessDistributionMethod)
       /\ factory' = [factory EXCEPT
                          !.circles = Append(@, CIRCLE),
                          !.isCircle[CIRCLE] = TRUE,
                          !.userCircles[sender] = Append(@, CIRCLE)]
       /\ verified.ok
       /\ reservePool' = verified.pool

requestToJoin(sender) ==
    /\ deployed
    /\ status = "PENDING"
    /\ totalParticipants < params.maxParticipants
    /\ ~participants[sender].isActive
    /\ sender # params.creator
    /\ participants' = [participants EXCEPT ![sender].participant = sender]
    /\ participantList' = Append(participantList, sender)
    /\ totalParticipants' = totalParticipants + 1
    /\ creditRegistry' = CreditRegistry_recordCircleJoin(creditRegistry, sender)
    /\ UNCHANGED <<reservePool, deployed, params, coordinator, factory, payoutCall, listing, status,
                   currentMonth, poolBalance, totalReserveDeposited,
                   payoutProposals, _locked, now, circleEth, events>>

\* _activateCircle is reached only under totalParticipants >= minParticipants,
\* which is also its own require.
\* _activateCircle storing the wrong member of CircleStatus.
_activateCircle_wrongStatus(st) ==
    IF totalParticipants >= params.minParticipants THEN "COMPLETED" ELSE st

_activateCircle(st) ==
    IF totalParticipants >= params.minParticipants THEN "ACTIVE" ELSE st

approveParticipant(sender, participant) ==
    /\ deployed
    /\ sender = coordinator
    /\ status = "PENDING"
    /\ participants[participant].participant = participant
    /\ ~participants[participant].isActive
    /\ participants' = [participants EXCEPT ![participant].isActive = TRUE]
    /\ status' = IF totalParticipants >= params.minParticipants
                 THEN _activateCircle(status)
                 ELSE status
    /\ UNCHANGED <<creditRegistry, reservePool, deployed, params, coordinator, factory, payoutCall, listing,
                   currentMonth, totalParticipants, poolBalance,
                   totalReserveDeposited, participantList, payoutProposals,
                   _locked, now, circleEth, events>>

\* The loop of rejectParticipant: the first entry equal to participant is
\* overwritten by the last entry and the list is shortened by one.
SwapRemove(list, participant) ==
    IF \E i \in 1..Len(list) : list[i] = participant
    THEN LET i == CHOOSE k \in 1..Len(list) :
                      /\ list[k] = participant
                      /\ \A j \in 1..(k - 1) : list[j] # participant
         IN SubSeq([list EXCEPT ![i] = list[Len(list)]], 1, Len(list) - 1)
    ELSE list

\* delete participants[participant] resets the struct's value fields; the
\* mappings nested in it (monthlyPayments) are left as they are.
DeleteParticipant(p) ==
    [ZeroParticipant EXCEPT !.monthlyPayments = p.monthlyPayments]

rejectParticipant(sender, participant) ==
    /\ deployed
    /\ sender = coordinator
    /\ status = "PENDING"
    /\ participants[participant].participant = participant
    /\ ~participants[participant].isActive
    /\ totalParticipants >= 1          \* totalParticipants-- reverts at 0
    /\ participantList' = SwapRemove(participantList, participant)
    /\ totalParticipants' = totalParticipants - 1
    /\ participants' = [participants EXCEPT
                            ![participant] = DeleteParticipant(@)]
    /\ UNCHANGED <<creditRegistry, reservePool, deployed, params, coordinator, factory, payoutCall, listing,
                   status, currentMonth, poolBalance, totalReserveDeposited,
                   payoutProposals, _locked, now, circleEth, events>>

\* Join requests are bounded by the requester's circlesJoined counter.
MayJoin(sender) ==
    creditRegistry.creditProfiles[sender].circlesJoined < MaxCirclesJoined

NextAdmission ==
    \/ \E mc \in ContributionChoices, d \in DurationChoices,
          mn \in MinParticipantsChoices, mx \in MaxParticipantsChoices,
          rp \in ReserveChoices, em \in MethodChoices, cr \in {CREATOR, ZERO} :
           constructor(cr, mc, d, mn, mx, rp, em)
    \/ \E sender \in Users : MayJoin(sender) /\ requestToJoin(sender)
    \/ \E sender \in Users, participant \in Addr :
           approveParticipant(sender, participant)
    \/ \E sender \in Users, participant \in Addr :
           rejectParticipant(sender, participant)

SpecAdmission == Init /\ [][NextAdmission]_vars

(***************************************************************************)
(* Creation against a moving score: anybody may call the registry's        *)
(* record* functions, so the creator's score can be anything before the    *)
(* circle is constructed and can drop afterwards.                          *)
(***************************************************************************)
MaxCreatorOnTimeCalls == 1   \* direct recordOnTimePayment calls on the creator

CreationContributionChoices == {0, 3}
CreationDurationChoices == {0, 2}
CreationMinChoices == {1, 2}
CreationMaxChoices == {1, 3, 6}
CreationReserveChoices == {34, 101}
CreationJoiners == {"a"}

CreatorCalls(field) == creditRegistry.creditProfiles[CREATOR][field]

NextCreation ==
    \/ \E mc \in CreationContributionChoices, d \in CreationDurationChoices,
          mn \in CreationMinChoices, mx \in CreationMaxChoices,
          rp \in CreationReserveChoices :
           constructor(CREATOR, mc, d, mn, mx, rp, "WITHDRAWABLE")
    \/ /\ CreatorCalls("onTimePayments") < MaxCreatorOnTimeCalls
       /\ RegistryOnTimePayment(CREATOR)
    \/ /\ CreatorCalls("latePayments") < MaxLateCalls
       /\ RegistryLatePayment(CREATOR)
    \/ /\ CreatorCalls("defaults") < MaxDefaultCalls
       /\ RegistryDefault(CREATOR)
    \/ /\ CreatorCalls("circlesCompleted") < MaxCompletionCalls
       /\ RegistryCircleCompletion(CREATOR)
    \/ \E sender \in CreationJoiners : MayJoin(sender) /\ requestToJoin(sender)
    \/ \E participant \in CreationJoiners :
           approveParticipant(CREATOR, participant)

SpecCreation == Init /\ [][NextCreation]_vars

(***************************************************************************)
(* LendingCircleFactory: the views on the list of circles.  getCircles     *)
(* reads nothing but the array circles, so it is applied to every array of *)
(* up to MaxListed distinct circle addresses.  uint256 is modelled with    *)
(* UintBits bits; an addition that exceeds the width reverts the call.     *)
(***************************************************************************)
UintBits == 3
UintMax == 2^UintBits - 1
MaxListed == 3
ListedAddr == {CIRCLE, "circle2", "circle3"}

getCircleCount(f) == Len(f.circles)

getCircles(f, offset, limit) ==
    LET length == Len(f.circles)
        sum == offset + limit
        end == IF sum > length THEN length ELSE sum
        resultLength == end - offset
    IN IF offset >= length
       THEN [ok |-> TRUE, result |-> <<>>]
       ELSE IF sum > UintMax
            THEN [ok |-> FALSE, result |-> <<>>]
            ELSE [ok |-> TRUE,
                  result |-> [i \in 1..resultLength |-> f.circles[offset + i]]]

\* A call of getCircles and what its caller receives.
GetCircles(offset, limit) ==
    LET out == getCircles(factory, offset, limit)
    IN /\ listing' = [called |-> TRUE, offset |-> offset, limit |-> limit,
                      ok |-> out.ok, result |-> out.result]
       /\ UNCHANGED <<creditRegistry, reservePool, circleVars, factory,
                      payoutCall, now>>

\* Arrays of distinct circle addresses, in the order of their creation.
ListedArrays ==
    {l \in UNION {[1..n -> ListedAddr] : n \in 0..MaxListed} :
        \A i, j \in 1..Len(l) : l[i] = l[j] => i = j}

InitListing ==
    /\ creditRegistry = [creditProfiles |-> [x \in Addr |-> ZeroProfile],
                         hasProfile |-> [x \in Addr |-> FALSE]]
    /\ reservePool = ReservePool_constructor(DEPLOYER)
    /\ payoutCall = NoCall
    /\ listing = NoListing
    /\ deployed = FALSE
    /\ params = ZeroParams
    /\ coordinator = ZERO
    /\ status = "PENDING"
    /\ currentMonth = 0
    /\ totalParticipants = 0
    /\ poolBalance = 0
    /\ totalReserveDeposited = 0
    /\ participants = [x \in Addr |-> ZeroParticipant]
    /\ participantList = <<>>
    /\ payoutProposals = [m \in MonthArgs |-> ZeroProposal]
    /\ _locked = FALSE
    /\ now = 0
    /\ circleEth = 0
    /\ events = NoEvents
    /\ \E l \in ListedArrays :
           factory = [circles |-> l,
                      isCircle |-> [x \in PoolAddr \cup ListedAddr |->
                                       \E i \in 1..Len(l) : l[i] = x],
                      userCircles |-> [x \in Addr |->
                                          IF x = CREATOR THEN l ELSE <<>>]]

NextListing == \E offset \in 0..UintMax, limit \in 0..UintMax : GetCircles(offset, limit)

SpecListing == InitListing /\ [][NextListing]_vars

(***************************************************************************)
(* LendingCircle: contributions, proposals and votes                       *)
(***************************************************************************)
MaxExtras == 1            \* cap on the votes cast plus the late payments
                          \* and defaults the circle records

\* The modifier without its check of isInDefault.
onlyActiveParticipant_ignoringDefault(sender) ==
    participants[sender].isActive

onlyActiveParticipant(sender) ==
    participants[sender].isActive /\ ~participants[sender].isInDefault

onlyActiveCircle == status = "ACTIVE"

\* A deduction that is applied under the wrong method.
AutoDeduct_wrongMethod(sender) ==
    LET contributionAmount == params.monthlyContribution
        excessBalance == participants[sender].withdrawableBalance
    IN IF params.excessDistributionMethod = "WITHDRAWABLE" /\ excessBalance > 0
       THEN IF excessBalance >= contributionAmount
            THEN [owed |-> 0, left |-> excessBalance - contributionAmount]
            ELSE [owed |-> contributionAmount - excessBalance, left |-> 0]
       ELSE [owed |-> contributionAmount, left |-> excessBalance]

\* The amount still owed after the auto-deduction, and the withdrawable
\* balance the deduction leaves.
AutoDeduct(sender) ==
    LET contributionAmount == params.monthlyContribution
        excessBalance == participants[sender].withdrawableBalance
    IN IF params.excessDistributionMethod = "AUTO_DEDUCT" /\ excessBalance > 0
       THEN IF excessBalance >= contributionAmount
            THEN [owed |-> 0, left |-> excessBalance - contributionAmount]
            ELSE [owed |-> contributionAmount - excessBalance, left |-> 0]
       ELSE [owed |-> contributionAmount, left |-> excessBalance]

\* makeContribution that credits the whole value to the pool and forwards
\* nothing to the reserve.
makeContribution_unsplit(sender, month, value) ==
    LET d == AutoDeduct(sender)
    IN /\ deployed
       /\ onlyActiveParticipant(sender)
       /\ onlyActiveCircle
       /\ month = currentMonth
       /\ ~participants[sender].monthlyPayments[month]
       /\ value = d.owed
       /\ participants' = [participants EXCEPT
                               ![sender].withdrawableBalance = d.left,
                               ![sender].monthlyPayments[month] = TRUE]
       /\ poolBalance' = poolBalance + value
       /\ circleEth' = circleEth + value
       /\ creditRegistry' = CreditRegistry_recordOnTimePayment(creditRegistry, sender)
       /\ events' = [events EXCEPT !.ContributionMade[sender][month] = @ + 1]
       /\ UNCHANGED <<reservePool, deployed, params, coordinator, factory, payoutCall, listing, status,
                      currentMonth, totalParticipants, totalReserveDeposited,
                      participantList, payoutProposals, _locked, now>>

makeContribution(sender, month, value) ==
    LET d == AutoDeduct(sender)
        reserveAmount == (value * params.reservePercentage) \div 100
        poolAmount == value - reserveAmount
        sent == ReservePool_receive(reservePool, CIRCLE, reserveAmount)
    IN /\ deployed
       /\ onlyActiveParticipant(sender)
       /\ onlyActiveCircle
       /\ month = currentMonth
       /\ ~participants[sender].monthlyPayments[month]
       /\ value = d.owed
       /\ reserveAmount > 0 => sent.ok
       /\ participants' = [participants EXCEPT
                               ![sender].withdrawableBalance = d.left,
                               ![sender].monthlyPayments[month] = TRUE]
       /\ poolBalance' = poolBalance + poolAmount
       /\ totalReserveDeposited' = totalReserveDeposited + reserveAmount
       /\ reservePool' = IF reserveAmount > 0 THEN sent.pool ELSE reservePool
       /\ circleEth' = circleEth + value - reserveAmount
       /\ creditRegistry' = CreditRegistry_recordOnTimePayment(creditRegistry, sender)
       /\ events' = [events EXCEPT !.ContributionMade[sender][month] = @ + 1]
       /\ UNCHANGED <<deployed, params, coordinator, factory, payoutCall, listing, status, currentMonth,
                      totalParticipants, participantList, payoutProposals,
                      _locked, now>>

TotalVotes ==
    SumOver(MonthArgs, [m \in MonthArgs |-> Len(payoutProposals[m].voters)])

\* proposePayout without the check that the candidate is not yet proposed.
proposePayout_reproposable(sender, candidate, month) ==
    LET proposal == payoutProposals[month]
        endTime == IF proposal.endTime = 0
                   THEN now + votingPeriod
                   ELSE proposal.endTime
    IN /\ deployed
       /\ onlyActiveParticipant(sender)
       /\ onlyActiveCircle
       /\ month = currentMonth
       /\ participants[candidate].isActive
       /\ ~participants[candidate].hasReceivedPayout
       /\ ~participants[candidate].isInDefault
       /\ now < endTime
       /\ payoutProposals' = [payoutProposals EXCEPT
              ![month].endTime = endTime,
              ![month].executed = IF proposal.endTime = 0 THEN FALSE ELSE @,
              ![month].candidates[candidate] =
                  [candidate |-> candidate, proposer |-> sender,
                   totalVotes |-> 0, isActive |-> TRUE],
              ![month].candidateList = Append(@, candidate)]
       /\ UNCHANGED <<creditRegistry, reservePool, deployed, params,
                      coordinator, factory, payoutCall, listing, status, currentMonth, totalParticipants,
                      poolBalance, totalReserveDeposited, participants,
                      participantList, _locked, now, circleEth, events>>

\* proposePayout that sets the deadline anew with every candidate.
proposePayout_movingDeadline(sender, candidate, month) ==
    LET proposal == payoutProposals[month]
        endTime == now + votingPeriod
    IN /\ deployed
       /\ onlyActiveParticipant(sender)
       /\ onlyActiveCircle
       /\ month = currentMonth
       /\ participants[candidate].isActive
       /\ ~participants[candidate].hasReceivedPayout
       /\ ~participants[candidate].isInDefault
       /\ now < endTime
       /\ ~proposal.candidates[candidate].isActive
       /\ payoutProposals' = [payoutProposals EXCEPT
              ![month].endTime = endTime,
              ![month].executed = IF proposal.endTime = 0 THEN FALSE ELSE @,
              ![month].candidates[candidate] =
                  [candidate |-> candidate, proposer |-> sender,
                   totalVotes |-> 0, isActive |-> TRUE],
              ![month].candidateList = Append(@, candidate)]
       /\ UNCHANGED <<creditRegistry, reservePool, deployed, params,
                      coordinator, factory, payoutCall, listing, status, currentMonth, totalParticipants,
                      poolBalance, totalReserveDeposited, participants,
                      participantList, _locked, now, circleEth, events>>

proposePayout(sender, candidate, month) ==
    LET proposal == payoutProposals[month]
        endTime == IF proposal.endTime = 0
                   THEN now + votingPeriod
                   ELSE proposal.endTime
    IN /\ deployed
       /\ onlyActiveParticipant(sender)
       /\ onlyActiveCircle
       /\ month = currentMonth
       /\ participants[candidate].isActive
       /\ ~participants[candidate].hasReceivedPayout
       /\ ~participants[candidate].isInDefault
       /\ now < endTime
       /\ ~proposal.candidates[candidate].isActive
       /\ payoutProposals' = [payoutProposals EXCEPT
              ![month].endTime = endTime,
              ![month].executed = IF proposal.endTime = 0 THEN FALSE ELSE @,
              ![month].candidates[candidate] =
                  [candidate |-> candidate, proposer |-> sender,
                   totalVotes |-> 0, isActive |-> TRUE],
              ![month].candidateList = Append(@, candidate)]
       /\ UNCHANGED <<creditRegistry, reservePool, deployed, params,
                      coordinator, factory, payoutCall, listing, status, currentMonth, totalParticipants,
                      poolBalance, totalReserveDeposited, participants,
                      participantList, _locked, now, circleEth, events>>

\* vote without the check that the caller has not voted yet.
vote_repeatable(sender, month, candidate) ==
    LET proposal == payoutProposals[month]
        voteWeight == getCreditScore(creditRegistry, sender)
    IN /\ deployed
       /\ onlyActiveParticipant(sender)
       /\ onlyActiveCircle
       /\ proposal.endTime > 0
       /\ now < proposal.endTime
       /\ proposal.candidates[candidate].isActive
       /\ voteWeight > 0
       /\ payoutProposals' = [payoutProposals EXCEPT
              ![month].votes[sender] =
                  [voter |-> sender, candidate |-> candidate,
                   weight |-> voteWeight, hasVoted |-> TRUE],
              ![month].voters = Append(@, sender),
              ![month].candidates[candidate].totalVotes = @ + voteWeight]
       /\ UNCHANGED <<creditRegistry, reservePool, deployed, params,
                      coordinator, factory, payoutCall, listing, status, currentMonth, totalParticipants,
                      poolBalance, totalReserveDeposited, participants,
                      participantList, _locked, now, circleEth, events>>

\* vote that counts heads: every vote adds 1 to the tally.
vote_unweighted(sender, month, candidate) ==
    LET proposal == payoutProposals[month]
        voteWeight == getCreditScore(creditRegistry, sender)
    IN /\ deployed
       /\ onlyActiveParticipant(sender)
       /\ onlyActiveCircle
       /\ proposal.endTime > 0
       /\ now < proposal.endTime
       /\ ~proposal.votes[sender].hasVoted
       /\ proposal.candidates[candidate].isActive
       /\ voteWeight > 0
       /\ payoutProposals' = [payoutProposals EXCEPT
              ![month].votes[sender] =
                  [voter |-> sender, candidate |-> candidate,
                   weight |-> voteWeight, hasVoted |-> TRUE],
              ![month].voters = Append(@, sender),
              ![month].candidates[candidate].totalVotes = @ + 1]
       /\ UNCHANGED <<creditRegistry, reservePool, deployed, params,
                      coordinator, factory, payoutCall, listing, status, currentMonth, totalParticipants,
                      poolBalance, totalReserveDeposited, participants,
                      participantList, _locked, now, circleEth, events>>

vote(sender, month, candidate) ==
    LET proposal == payoutProposals[month]
        voteWeight == getCreditScore(creditRegistry, sender)
    IN /\ deployed
       /\ onlyActiveParticipant(sender)
       /\ onlyActiveCircle
       /\ proposal.endTime > 0
       /\ now < proposal.endTime
       /\ ~proposal.votes[sender].hasVoted
       /\ proposal.candidates[candidate].isActive
       /\ voteWeight > 0
       /\ payoutProposals' = [payoutProposals EXCEPT
              ![month].votes[sender] =
                  [voter |-> sender, candidate |-> candidate,
                   weight |-> voteWeight, hasVoted |-> TRUE],
              ![month].voters = Append(@, sender),
              ![month].candidates[candidate].totalVotes = @ + voteWeight]
       /\ UNCHANGED <<creditRegistry, reservePool, deployed, params,
                      coordinator, factory, payoutCall, listing, status, currentMonth, totalParticipants,
                      poolBalance, totalReserveDeposited, participants,
                      participantList, _locked, now, circleEth, events>>

(***************************************************************************)
(* LendingCircle: payout                                                   *)
(***************************************************************************)
\* A scan in which a later candidate takes the lead on equal votes and
\* equal credit.
RECURSIVE SelectScan_lastWins(_, _, _, _, _)
SelectScan_lastWins(proposal, parts, reg, i, best) ==
    IF i > Len(proposal.candidateList) THEN best.candidate
    ELSE LET candidate == proposal.candidateList[i]
             cand == proposal.candidates[candidate]
             candidateVotes == cand.totalVotes
             candidateCredit == getCreditScore(reg, candidate)
         IN IF \/ ~cand.isActive
               \/ parts[candidate].hasReceivedPayout
               \/ parts[candidate].isInDefault
            THEN SelectScan_lastWins(proposal, parts, reg, i + 1, best)
            ELSE IF \/ candidateVotes > best.votes
                    \/ /\ candidateVotes = best.votes
                       /\ candidateCredit >= best.credit
                 THEN SelectScan_lastWins(proposal, parts, reg, i + 1,
                                         [candidate |-> candidate,
                                          votes |-> candidateVotes,
                                          credit |-> candidateCredit])
                 ELSE SelectScan_lastWins(proposal, parts, reg, i + 1, best)

\* The scan of _selectWinner from index i on; best is the lead so far.
RECURSIVE SelectScan(_, _, _, _, _)
SelectScan(proposal, parts, reg, i, best) ==
    IF i > Len(proposal.candidateList) THEN best.candidate
    ELSE LET candidate == proposal.candidateList[i]
             cand == proposal.candidates[candidate]
             candidateVotes == cand.totalVotes
             candidateCredit == getCreditScore(reg, candidate)
         IN IF \/ ~cand.isActive
               \/ parts[candidate].hasReceivedPayout
               \/ parts[candidate].isInDefault
            THEN SelectScan(proposal, parts, reg, i + 1, best)
            ELSE IF \/ candidateVotes > best.votes
                    \/ /\ candidateVotes = best.votes
                       /\ candidateCredit > best.credit
                 THEN SelectScan(proposal, parts, reg, i + 1,
                                 [candidate |-> candidate,
                                  votes |-> candidateVotes,
                                  credit |-> candidateCredit])
                 ELSE SelectScan(proposal, parts, reg, i + 1, best)

_selectWinner(proposal, parts, reg) ==
    IF Len(proposal.candidateList) = 0 THEN ZERO
    ELSE SelectScan(proposal, parts, reg, 1,
                    [candidate |-> ZERO, votes |-> 0, credit |-> 0])

\* The entries of the member list that are active and not in default.
ActiveEntries(parts, list) ==
    {i \in 1..Len(list) : parts[list[i]].isActive /\ ~parts[list[i]].isInDefault}

_getActiveParticipantCount(parts, list) == Cardinality(ActiveEntries(parts, list))

\* How often an address occurs among the active entries of the list.
ActiveOccurrences(parts, list, x) ==
    Cardinality({i \in ActiveEntries(parts, list) : list[i] = x})

\* _distributeExcess on pool balance pb: the new pool balance and members.
_distributeExcess(pb, parts, list) ==
    LET activeCount == _getActiveParticipantCount(parts, list)
        expectedPoolPerParticipant ==
            (params.monthlyContribution * (100 - params.reservePercentage)) \div 100
        expectedTotalPool == expectedPoolPerParticipant * activeCount
        excess == pb - expectedTotalPool
        perParticipant == excess \div activeCount
    IN IF activeCount = 0 \/ ~(pb > expectedTotalPool)
       THEN [poolBalance |-> pb, participants |-> parts]
       ELSE [poolBalance |-> pb - excess,
             participants |->
                 [x \in Addr |->
                     [parts[x] EXCEPT !.withdrawableBalance =
                         @ + perParticipant * ActiveOccurrences(parts, list, x)]]]

\* The loop of _completeCircle from index i on.
RECURSIVE CompletionScan(_, _, _, _)
CompletionScan(reg, parts, list, i) ==
    IF i > Len(list) THEN reg
    ELSE CompletionScan(
             IF parts[list[i]].isActive /\ ~parts[list[i]].isInDefault
             THEN CreditRegistry_recordCircleCompletion(reg, list[i])
             ELSE reg,
             parts, list, i + 1)

_completeCircle(reg, parts, list) == CompletionScan(reg, parts, list, 1)

\* An advance that skips a month.
AdvanceMonth_skipping(month) == month + 2

\* currentMonth++
AdvanceMonth(month) == month + 1

\* executePayout without the check that the voting period has ended.
executePayout_early(month) ==
    LET proposal == payoutProposals[month]
        recipient == _selectWinner(proposal, participants, creditRegistry)
        activeCount == _getActiveParticipantCount(participants, participantList)
        expectedPoolPerParticipant ==
            (params.monthlyContribution * (100 - params.reservePercentage)) \div 100
        expectedPool == expectedPoolPerParticipant * activeCount
        payoutAmount == expectedPool
        short == poolBalance < payoutAmount
        shortfall == payoutAmount - poolBalance
        \* reservePool.withdraw(shortfall, address(this)): the transfer runs
        \* LendingCircle.receive, which always accepts
        borrowed == withdraw(reservePool, CIRCLE, shortfall, CIRCLE, TRUE)
        \* credited by receive and once more by the line after the withdraw
        pool1 == IF short THEN poolBalance + shortfall + shortfall ELSE poolBalance
        eth1 == IF short THEN circleEth + shortfall ELSE circleEth
        pool2 == pool1 - payoutAmount
        eth2 == eth1 - payoutAmount
        parts2 == [participants EXCEPT ![recipient].hasReceivedPayout = TRUE]
        reg2 == CreditRegistry_recordOnTimePayment(creditRegistry, recipient)
        dist == _distributeExcess(pool2, parts2, participantList)
        month2 == AdvanceMonth(currentMonth)
        completes == month2 >= params.durationInMonths
    IN /\ deployed
       /\ ~_locked
       /\ onlyActiveCircle
       /\ proposal.endTime > 0
       /\ ~proposal.executed
       /\ month = currentMonth
       /\ recipient # ZERO
       /\ participants[recipient].isActive
       /\ ~participants[recipient].hasReceivedPayout
       /\ ~participants[recipient].isInDefault
       /\ short => borrowed.ok
       /\ pool1 >= payoutAmount
       /\ eth1 >= payoutAmount            \* else the transfer fails
       /\ reservePool' = IF short THEN borrowed.pool ELSE reservePool
       /\ payoutProposals' = [payoutProposals EXCEPT
              ![month].executed = TRUE, ![month].winner = recipient]
       /\ participants' = dist.participants
       /\ poolBalance' = dist.poolBalance
       /\ circleEth' = eth2
       /\ currentMonth' = month2
       /\ status' = IF completes THEN "COMPLETED" ELSE status
       /\ creditRegistry' =
              IF completes
              THEN _completeCircle(reg2, dist.participants, participantList)
              ELSE reg2
       /\ _locked' = FALSE
       /\ events' = [events EXCEPT !.PayoutExecuted =
              Append(@, [recipient |-> recipient, amount |-> payoutAmount,
                         month |-> month])]
       /\ UNCHANGED <<deployed, params, coordinator, factory, payoutCall, listing, totalParticipants,
                      totalReserveDeposited, participantList, now>>

\* executePayout that does not mark the recipient as paid.
executePayout_unmarked(month) ==
    LET proposal == payoutProposals[month]
        recipient == _selectWinner(proposal, participants, creditRegistry)
        activeCount == _getActiveParticipantCount(participants, participantList)
        expectedPoolPerParticipant ==
            (params.monthlyContribution * (100 - params.reservePercentage)) \div 100
        expectedPool == expectedPoolPerParticipant * activeCount
        payoutAmount == expectedPool
        short == poolBalance < payoutAmount
        shortfall == payoutAmount - poolBalance
        \* reservePool.withdraw(shortfall, address(this)): the transfer runs
        \* LendingCircle.receive, which always accepts
        borrowed == withdraw(reservePool, CIRCLE, shortfall, CIRCLE, TRUE)
        \* credited by receive and once more by the line after the withdraw
        pool1 == IF short THEN poolBalance + shortfall + shortfall ELSE poolBalance
        eth1 == IF short THEN circleEth + shortfall ELSE circleEth
        pool2 == pool1 - payoutAmount
        eth2 == eth1 - payoutAmount
        parts2 == participants
        reg2 == CreditRegistry_recordOnTimePayment(creditRegistry, recipient)
        dist == _distributeExcess(pool2, parts2, participantList)
        month2 == AdvanceMonth(currentMonth)
        completes == month2 >= params.durationInMonths
    IN /\ deployed
       /\ ~_locked
       /\ onlyActiveCircle
       /\ proposal.endTime > 0
       /\ now >= proposal.endTime
       /\ ~proposal.executed
       /\ month = currentMonth
       /\ recipient # ZERO
       /\ participants[recipient].isActive
       /\ ~participants[recipient].hasReceivedPayout
       /\ ~participants[recipient].isInDefault
       /\ short => borrowed.ok
       /\ pool1 >= payoutAmount
       /\ eth1 >= payoutAmount            \* else the transfer fails
       /\ reservePool' = IF short THEN borrowed.pool ELSE reservePool
       /\ payoutProposals' = [payoutProposals EXCEPT
              ![month].executed = TRUE, ![month].winner = recipient]
       /\ participants' = dist.participants
       /\ poolBalance' = dist.poolBalance
       /\ circleEth' = eth2
       /\ currentMonth' = month2
       /\ status' = IF completes THEN "COMPLETED" ELSE status
       /\ creditRegistry' =
              IF completes
              THEN _completeCircle(reg2, dist.participants, participantList)
              ELSE reg2
       /\ _locked' = FALSE
       /\ events' = [events EXCEPT !.PayoutExecuted =
              Append(@, [recipient |-> recipient, amount |-> payoutAmount,
                         month |-> month])]
       /\ UNCHANGED <<deployed, params, coordinator, factory, payoutCall, listing, totalParticipants,
                      totalReserveDeposited, participantList, now>>

executePayout(month) ==
    LET proposal == payoutProposals[month]
        recipient == _selectWinner(proposal, participants, creditRegistry)
        activeCount == _getActiveParticipantCount(participants, participantList)
        expectedPoolPerParticipant ==
            (params.monthlyContribution * (100 - params.reservePercentage)) \div 100
        expectedPool == expectedPoolPerParticipant * activeCount
        payoutAmount == expectedPool
        short == poolBalance < payoutAmount
        shortfall == payoutAmount - poolBalance
        \* reservePool.withdraw(shortfall, address(this)): the transfer runs
        \* LendingCircle.receive, which always accepts
        borrowed == withdraw(reservePool, CIRCLE, shortfall, CIRCLE, TRUE)
        \* credited by receive and once more by the line after the withdraw
        pool1 == IF short THEN poolBalance + shortfall + shortfall ELSE poolBalance
        eth1 == IF short THEN circleEth + shortfall ELSE circleEth
        pool2 == pool1 - payoutAmount
        eth2 == eth1 - payoutAmount
        parts2 == [participants EXCEPT ![recipient].hasReceivedPayout = TRUE]
        reg2 == CreditRegistry_recordOnTimePayment(creditRegistry, recipient)
        dist == _distributeExcess(pool2, parts2, participantList)
        month2 == AdvanceMonth(currentMonth)
        completes == month2 >= params.durationInMonths
    IN /\ deployed
       /\ ~_locked
       /\ onlyActiveCircle
       /\ proposal.endTime > 0
       /\ now >= proposal.endTime
       /\ ~proposal.executed
       /\ month = currentMonth
       /\ recipient # ZERO
       /\ participants[recipient].isActive
       /\ ~participants[recipient].hasReceivedPayout
       /\ ~participants[recipient].isInDefault
       /\ short => borrowed.ok
       /\ pool1 >= payoutAmount
       /\ eth1 >= payoutAmount            \* else the transfer fails
       /\ reservePool' = IF short THEN borrowed.pool ELSE reservePool
       /\ payoutProposals' = [payoutProposals EXCEPT
              ![month].executed = TRUE, ![month].winner = recipient]
       /\ participants' = dist.participants
       /\ poolBalance' = dist.poolBalance
       /\ circleEth' = eth2
       /\ currentMonth' = month2
       /\ status' = IF completes THEN "COMPLETED" ELSE status
       /\ creditRegistry' =
              IF completes
              THEN _completeCircle(reg2, dist.participants, participantList)
              ELSE reg2
       /\ _locked' = FALSE
       /\ events' = [events EXCEPT !.PayoutExecuted =
              Append(@, [recipient |-> recipient, amount |-> payoutAmount,
                         month |-> month])]
       /\ UNCHANGED <<deployed, params, coordinator, factory, payoutCall, listing, totalParticipants,
                      totalReserveDeposited, participantList, now>>

\* executePayout up to recipient.call{value: payoutAmount}(""), for a
\* recipient that is a contract: the modifiers (nonReentrant sets _locked),
\* the requires, the borrowing from the reserve and the four writes before
\* the transfer.  The call hands control to the recipient's code while the
\* locals recipient, payoutAmount and month stay on the stack.
executePayoutTransfer(month) ==
    LET proposal == payoutProposals[month]
        recipient == _selectWinner(proposal, participants, creditRegistry)
        activeCount == _getActiveParticipantCount(participants, participantList)
        expectedPoolPerParticipant ==
            (params.monthlyContribution * (100 - params.reservePercentage)) \div 100
        expectedPool == expectedPoolPerParticipant * activeCount
        payoutAmount == expectedPool
        short == poolBalance < payoutAmount
        shortfall == payoutAmount - poolBalance
        borrowed == withdraw(reservePool, CIRCLE, shortfall, CIRCLE, TRUE)
        pool1 == IF short THEN poolBalance + shortfall + shortfall ELSE poolBalance
        eth1 == IF short THEN circleEth + shortfall ELSE circleEth
    IN /\ deployed
       /\ ~_locked
       /\ onlyActiveCircle
       /\ proposal.endTime > 0
       /\ now >= proposal.endTime
       /\ ~proposal.executed
       /\ month = currentMonth
       /\ recipient # ZERO
       /\ participants[recipient].isActive
       /\ ~participants[recipient].hasReceivedPayout
       /\ ~participants[recipient].isInDefault
       /\ short => borrowed.ok
       /\ pool1 >= payoutAmount
       /\ eth1 >= payoutAmount            \* else the transfer fails
       /\ _locked' = TRUE
       /\ reservePool' = IF short THEN borrowed.pool ELSE reservePool
       /\ participants' = [participants EXCEPT ![recipient].hasReceivedPayout = TRUE]
       /\ poolBalance' = pool1 - payoutAmount
       /\ payoutProposals' = [payoutProposals EXCEPT
              ![month].executed = TRUE, ![month].winner = recipient]
       /\ circleEth' = eth1 - payoutAmount
       /\ payoutCall' = [active |-> TRUE, recipient |-> recipient,
                         payoutAmount |-> payoutAmount, month |-> month]
       /\ UNCHANGED <<creditRegistry, deployed, params, coordinator, factory, listing,
                      status, currentMonth, totalParticipants,
                      totalReserveDeposited, participantList, now, events>>

\* The rest of executePayout once the recipient's code has returned success:
\* the registry call, _distributeExcess, the month counter, _completeCircle,
\* the event, and the end of nonReentrant.  Copy that leaves _locked set.
executePayoutReturn_lockKept ==
    LET recipient == payoutCall.recipient
        reg2 == CreditRegistry_recordOnTimePayment(creditRegistry, recipient)
        dist == _distributeExcess(poolBalance, participants, participantList)
        month2 == AdvanceMonth(currentMonth)
        completes == month2 >= params.durationInMonths
    IN /\ payoutCall.active
       /\ participants' = dist.participants
       /\ poolBalance' = dist.poolBalance
       /\ currentMonth' = month2
       /\ status' = IF completes THEN "COMPLETED" ELSE status
       /\ creditRegistry' =
              IF completes
              THEN _completeCircle(reg2, dist.participants, participantList)
              ELSE reg2
       /\ events' = [events EXCEPT !.PayoutExecuted =
              Append(@, [recipient |-> recipient,
                         amount |-> payoutCall.payoutAmount,
                         month |-> payoutCall.month])]
       /\ _locked' = TRUE
       /\ payoutCall' = NoCall
       /\ UNCHANGED <<reservePool, deployed, params, coordinator, factory, listing,
                      totalParticipants, totalReserveDeposited,
                      participantList, payoutProposals, circleEth, now>>

\* The rest of executePayout once the recipient's code has returned success:
\* the registry call, _distributeExcess, the month counter, _completeCircle,
\* the event, and the end of nonReentrant.
executePayoutReturn ==
    LET recipient == payoutCall.recipient
        reg2 == CreditRegistry_recordOnTimePayment(creditRegistry, recipient)
        dist == _distributeExcess(poolBalance, participants, participantList)
        month2 == AdvanceMonth(currentMonth)
        completes == month2 >= params.durationInMonths
    IN /\ payoutCall.active
       /\ participants' = dist.participants
       /\ poolBalance' = dist.poolBalance
       /\ currentMonth' = month2
       /\ status' = IF completes THEN "COMPLETED" ELSE status
       /\ creditRegistry' =
              IF completes
              THEN _completeCircle(reg2, dist.participants, participantList)
              ELSE reg2
       /\ events' = [events EXCEPT !.PayoutExecuted =
              Append(@, [recipient |-> recipient,
                         amount |-> payoutCall.payoutAmount,
                         month |-> payoutCall.month])]
       /\ _locked' = FALSE
       /\ payoutCall' = NoCall
       /\ UNCHANGED <<reservePool, deployed, params, coordinator, factory, listing,
                      totalParticipants, totalReserveDeposited,
                      participantList, payoutProposals, circleEth, now>>

(***************************************************************************)
(* LendingCircle: delinquency and withdrawal                               *)
(***************************************************************************)
LatesRecorded ==
    SumOver(Addr, [x \in Addr |-> creditRegistry.creditProfiles[x].latePayments])

DefaultsRecorded ==
    SumOver(Addr, [x \in Addr |-> creditRegistry.creditProfiles[x].defaults])

hasPaidForMonth(participant, month) ==
    participants[participant].monthlyPayments[month]

\* recordLatePayment without the "Payment already recorded" check.
recordLatePayment_unchecked(sender, participant, month) ==
    /\ deployed
    /\ sender = coordinator
    /\ onlyActiveCircle
    /\ participants[participant].isActive
    /\ participants' = [participants EXCEPT
                            ![participant].monthlyPayments[month] = TRUE]
    /\ creditRegistry' = CreditRegistry_recordLatePayment(creditRegistry, participant)
    /\ events' = [events EXCEPT !.LatePaymentRecorded[participant][month] = @ + 1]
    /\ UNCHANGED <<reservePool, deployed, params, coordinator, factory, payoutCall, listing, status,
                   currentMonth, totalParticipants, poolBalance,
                   totalReserveDeposited, participantList, payoutProposals,
                   _locked, now, circleEth>>

recordLatePayment(sender, participant, month) ==
    /\ deployed
    /\ sender = coordinator
    /\ onlyActiveCircle
    /\ participants[participant].isActive
    /\ ~participants[participant].monthlyPayments[month]
    /\ participants' = [participants EXCEPT
                            ![participant].monthlyPayments[month] = TRUE]
    /\ creditRegistry' = CreditRegistry_recordLatePayment(creditRegistry, participant)
    /\ events' = [events EXCEPT !.LatePaymentRecorded[participant][month] = @ + 1]
    /\ UNCHANGED <<reservePool, deployed, params, coordinator, factory, payoutCall, listing, status,
                   currentMonth, totalParticipants, poolBalance,
                   totalReserveDeposited, participantList, payoutProposals,
                   _locked, now, circleEth>>

\* recordDefault that reports the default without flagging the participant.
recordDefault_unflagged(sender, participant, month) ==
    /\ deployed
    /\ sender = coordinator
    /\ onlyActiveCircle
    /\ participants[participant].isActive
    /\ creditRegistry' = CreditRegistry_recordDefault(creditRegistry, participant)
    /\ events' = [events EXCEPT !.DefaultRecorded = @ \cup {participant}]
    /\ UNCHANGED <<reservePool, deployed, params, coordinator, factory, payoutCall, listing, status,
                   currentMonth, totalParticipants, poolBalance,
                   totalReserveDeposited, participants, participantList,
                   payoutProposals, _locked, now, circleEth>>

\* recordDefault without the onlyCoordinator modifier.
recordDefault_anyCaller(sender, participant, month) ==
    /\ deployed
    /\ onlyActiveCircle
    /\ participants[participant].isActive
    /\ participants' = [participants EXCEPT ![participant].isInDefault = TRUE]
    /\ creditRegistry' = CreditRegistry_recordDefault(creditRegistry, participant)
    /\ events' = [events EXCEPT !.DefaultRecorded = @ \cup {participant}]
    /\ UNCHANGED <<reservePool, deployed, params, coordinator, factory, payoutCall, listing, status,
                   currentMonth, totalParticipants, poolBalance,
                   totalReserveDeposited, participantList, payoutProposals,
                   _locked, now, circleEth>>

recordDefault(sender, participant, month) ==
    /\ deployed
    /\ sender = coordinator
    /\ onlyActiveCircle
    /\ participants[participant].isActive
    /\ participants' = [participants EXCEPT ![participant].isInDefault = TRUE]
    /\ creditRegistry' = CreditRegistry_recordDefault(creditRegistry, participant)
    /\ events' = [events EXCEPT !.DefaultRecorded = @ \cup {participant}]
    /\ UNCHANGED <<reservePool, deployed, params, coordinator, factory, payoutCall, listing, status,
                   currentMonth, totalParticipants, poolBalance,
                   totalReserveDeposited, participantList, payoutProposals,
                   _locked, now, circleEth>>

withdrawExcess(sender) ==
    LET amount == participants[sender].withdrawableBalance
    IN /\ deployed
       /\ onlyActiveParticipant(sender)
       /\ params.excessDistributionMethod = "WITHDRAWABLE"
       /\ amount > 0
       /\ circleEth >= amount             \* else the transfer fails
       /\ participants' = [participants EXCEPT
                               ![sender].withdrawableBalance = 0]
       /\ circleEth' = circleEth - amount
       /\ UNCHANGED <<creditRegistry, reservePool, deployed, params,
                      coordinator, factory, payoutCall, listing, status, currentMonth, totalParticipants,
                      poolBalance, totalReserveDeposited, participantList,
                      payoutProposals, _locked, now, events>>

\* withdrawExcess called by a contract account whose receive hook calls
\* withdrawExcess once more and ignores a failure of that inner call.  Here
\* the balance is cleared only after the transfer, so the inner call still
\* sees it.
withdrawExcessReentered_clearedLate(sender) ==
    LET amount == participants[sender].withdrawableBalance
        atTransfer == participants
        inner == atTransfer[sender].withdrawableBalance
        innerOk == inner > 0 /\ circleEth - amount >= inner
        paid == amount + (IF innerOk THEN inner ELSE 0)
    IN /\ deployed
       /\ onlyActiveParticipant(sender)
       /\ params.excessDistributionMethod = "WITHDRAWABLE"
       /\ amount > 0
       /\ circleEth >= amount
       /\ participants' = [atTransfer EXCEPT
                               ![sender].withdrawableBalance = 0]
       /\ circleEth' = circleEth - paid
       /\ UNCHANGED <<creditRegistry, reservePool, deployed, params,
                      coordinator, factory, payoutCall, listing, status, currentMonth, totalParticipants,
                      poolBalance, totalReserveDeposited, participantList,
                      payoutProposals, _locked, now, events>>

\* withdrawExcess called by a contract account whose receive hook calls
\* withdrawExcess once more and ignores a failure of that inner call.  The
\* inner call runs on the storage as it is when the transfer is made, after
\* withdrawableBalance has been set to 0, and pays what it finds there.
withdrawExcessReentered(sender) ==
    LET amount == participants[sender].withdrawableBalance
        atTransfer == [participants EXCEPT ![sender].withdrawableBalance = 0]
        inner == atTransfer[sender].withdrawableBalance
        innerOk == inner > 0 /\ circleEth - amount >= inner
        paid == amount + (IF innerOk THEN inner ELSE 0)
    IN /\ deployed
       /\ onlyActiveParticipant(sender)
       /\ params.excessDistributionMethod = "WITHDRAWABLE"
       /\ amount > 0
       /\ circleEth >= amount
       /\ participants' = [atTransfer EXCEPT
                               ![sender].withdrawableBalance = 0]
       /\ circleEth' = circleEth - paid
       /\ UNCHANGED <<creditRegistry, reservePool, deployed, params,
                      coordinator, factory, payoutCall, listing, status, currentMonth, totalParticipants,
                      poolBalance, totalReserveDeposited, participantList,
                      payoutProposals, _locked, now, events>>

\* Time passes between transactions.  The circle reads block.timestamp only
\* to set endTime = now + votingPeriod and to compare it with an endTime, so
\* time is advanced one voting period at a time and only while some
\* proposal's deadline lies ahead.
AdvanceTime ==
    /\ \E m \in MonthArgs : payoutProposals[m].endTime > now
    /\ now' = now + votingPeriod
    /\ UNCHANGED <<creditRegistry, reservePool, circleVars, factory, payoutCall, listing>>

(***************************************************************************)
(* The whole system: one circle, its registry and its reserve pool         *)
(***************************************************************************)
\* Arguments of the life-cycle specification: the constructor's, the
\* accounts that ask to join, and the addresses named in calls.
LifeMinChoices == {2}
LifeReserveChoices == {34}
LifeMethodChoices == {"WITHDRAWABLE"}
LifeJoiners == {"a"}
LifeAddr == Users

\* Votes, late payments and defaults are optional steps of a circle's life;
\* their total number is bounded.
ExtrasLeft == TotalVotes + LatesRecorded + DefaultsRecorded < MaxExtras

Next ==
    \/ \E mn \in LifeMinChoices, rp \in LifeReserveChoices,
          em \in LifeMethodChoices :
           constructor(CREATOR, 3, 2, mn, 3, rp, em)
    \/ \E sender \in LifeJoiners : MayJoin(sender) /\ requestToJoin(sender)
    \/ \E sender \in Users, participant \in LifeAddr :
           approveParticipant(sender, participant)
    \/ \E sender \in Users, month \in MonthArgs,
          value \in 0..params.monthlyContribution :
           makeContribution(sender, month, value)
    \/ \E sender \in Users, candidate \in LifeAddr, month \in MonthArgs :
           proposePayout(sender, candidate, month)
    \/ /\ ExtrasLeft
       /\ \E sender \in Users, month \in MonthArgs, candidate \in LifeAddr :
              vote(sender, month, candidate)
    \/ \E month \in MonthArgs : executePayout(month)
    \/ /\ ExtrasLeft
       /\ \E sender \in Users, participant \in LifeAddr, month \in MonthArgs :
              recordLatePayment(sender, participant, month)
    \/ /\ ExtrasLeft
       /\ \E sender \in Users, participant \in LifeAddr, month \in MonthArgs :
              recordDefault(sender, participant, month)
    \/ \E sender \in Users : withdrawExcess(sender)
    \/ AdvanceTime
    \/ PoolVerifyCircle(DEPLOYER, CIRCLE)

Spec == Init /\ [][Next]_vars

(***************************************************************************)
(* The same system with plain value transfers to the circle: receive()     *)
(* accepts value from any account and adds it to poolBalance.              *)
(***************************************************************************)
MaxDonatedPool == 1       \* value is sent only while poolBalance stays
                          \* within this cap

CircleReceive(value) ==
    /\ deployed
    /\ LendingCircle_receive(value)
    /\ UNCHANGED <<creditRegistry, reservePool, deployed, params, coordinator, factory, payoutCall, listing,
                   status, currentMonth, totalParticipants,
                   totalReserveDeposited, participants, participantList,
                   payoutProposals, _locked, now, events>>

NextFunded ==
    \/ Next
    \/ \E value \in 1..MaxDonatedPool :
           /\ poolBalance + value <= MaxDonatedPool
           /\ CircleReceive(value)

SpecFunded == Init /\ [][NextFunded]_vars

(***************************************************************************)
(* The same system with participants that are contracts and re-enter       *)
(* withdrawExcess from the transfer they receive.                          *)
(***************************************************************************)
NextReentrant ==
    \/ Next
    \/ \E sender \in Users : withdrawExcessReentered(sender)

SpecReentrant == Init /\ [][NextReentrant]_vars

(***************************************************************************)
(* A circle whose excess is deducted from later contributions              *)
(* (AUTO_DEDUCT): contributions, proposals, payouts, defaults and plain    *)
(* value transfers.                                                        *)
(***************************************************************************)
NextAutoDeduct ==
    \/ constructor(CREATOR, 3, 2, 2, 3, 34, "AUTO_DEDUCT")
    \/ \E sender \in LifeJoiners : MayJoin(sender) /\ requestToJoin(sender)
    \/ \E sender \in Users, participant \in LifeAddr :
           approveParticipant(sender, participant)
    \/ \E sender \in Users, month \in MonthArgs,
          value \in 0..params.monthlyContribution :
           makeContribution(sender, month, value)
    \/ \E sender \in Users, candidate \in LifeAddr, month \in MonthArgs :
           proposePayout(sender, candidate, month)
    \/ \E month \in MonthArgs : executePayout(month)
    \/ /\ ExtrasLeft
       /\ \E sender \in Users, participant \in LifeAddr, month \in MonthArgs :
              recordDefault(sender, participant, month)
    \/ AdvanceTime
    \/ PoolVerifyCircle(DEPLOYER, CIRCLE)
    \/ \E value \in 1..MaxDonatedPool :
           /\ poolBalance + value <= MaxDonatedPool
           /\ CircleReceive(value)

SpecAutoDeduct == Init /\ [][NextAutoDeduct]_vars

(***************************************************************************)
(* The circle with payout recipients that are contracts: the transfer of   *)
(* executePayout runs the recipient's code, which may call back into the   *)
(* circle any number of times before it returns.  No other transaction     *)
(* runs in between, and a call that reverts leaves no trace.               *)
(***************************************************************************)
Idle == ~payoutCall.active

NotListed(sender) == \A i \in 1..Len(participantList) : participantList[i] # sender

NextPayoutHook ==
    \/ Idle /\ constructor(CREATOR, 3, 2, 2, 3, 34, "WITHDRAWABLE")
    \/ /\ Idle
       /\ \E sender \in LifeJoiners : NotListed(sender) /\ requestToJoin(sender)
    \/ /\ Idle
       /\ \E participant \in LifeAddr : approveParticipant(CREATOR, participant)
    \/ Idle /\ PoolVerifyCircle(DEPLOYER, CIRCLE)
    \/ /\ Idle
       /\ \E sender \in Users, month \in MonthArgs,
             value \in 0..params.monthlyContribution :
              makeContribution(sender, month, value)
    \/ /\ Idle
       /\ \E sender \in Users, candidate \in LifeAddr, month \in MonthArgs :
              proposePayout(sender, candidate, month)
    \/ /\ Idle
       /\ ExtrasLeft
       /\ \E sender \in Users, month \in MonthArgs, candidate \in LifeAddr :
              vote(sender, month, candidate)
    \/ Idle /\ AdvanceTime
    \/ /\ Idle
       /\ \E month \in MonthArgs : executePayout(month)
    \/ \E month \in MonthArgs : executePayoutTransfer(month)
    \/ /\ payoutCall.active
       /\ \E month \in MonthArgs, value \in 0..params.monthlyContribution :
              makeContribution(payoutCall.recipient, month, value)
    \/ /\ payoutCall.active
       /\ ExtrasLeft
       /\ \E participant \in LifeAddr, month \in MonthArgs :
              recordLatePayment(payoutCall.recipient, participant, month)
    \/ /\ payoutCall.active
       /\ ExtrasLeft
       /\ \E participant \in LifeAddr, month \in MonthArgs :
              recordDefault(payoutCall.recipient, participant, month)
    \/ payoutCall.active /\ withdrawExcess(payoutCall.recipient)
    \/ executePayoutReturn

SpecPayoutHook == Init /\ [][NextPayoutHook]_vars

(***************************************************************************)
(* Voting in the first month of a circle of three, while anybody may call  *)
(* the registry's recordDefault on a voter and so lower the voter's score. *)
(***************************************************************************)
MaxVotes == 3             \* cap on the votes cast
MaxVoterDefaults == 3     \* cap on the direct recordDefault calls
VotingJoiners == {"a", "b"}
ScoreMovers == {"a"}      \* the voters whose score is lowered

NextVoting ==
    \/ constructor(CREATOR, 3, 2, 2, 3, 34, "WITHDRAWABLE")
    \/ \E sender \in VotingJoiners : NotListed(sender) /\ requestToJoin(sender)
    \/ \E participant \in VotingJoiners : approveParticipant(CREATOR, participant)
    \/ \E sender \in Users, candidate \in Users, month \in MonthArgs :
           proposePayout(sender, candidate, month)
    \/ /\ TotalVotes < MaxVotes
       /\ \E sender \in Users, month \in MonthArgs, candidate \in Users :
              vote(sender, month, candidate)
    \/ /\ deployed
       /\ \E participant \in ScoreMovers :
              /\ creditRegistry.creditProfiles[participant].defaults < MaxVoterDefaults
              /\ RegistryDefault(participant)
    \/ AdvanceTime

SpecVoting == Init /\ [][NextVoting]_vars

(***************************************************************************)
(* Properties                                                              *)
(***************************************************************************)

C2_PoolAccounting ==
    /\ reservePool.currentBalance =
           reservePool.totalDeposited - reservePool.totalWithdrawn
    /\ reservePool.currentBalance >= 0

\* Value has come in and part of it has gone out again.
C2_Witness ==
    /\ reservePool.totalWithdrawn > 0
    /\ reservePool.currentBalance > 0
    /\ circleEth > 0

\* The payouts executed so far, and whether this step executes one.
PayoutsExecuted == Len(events.PayoutExecuted)

PayoutStep == Len(events'.PayoutExecuted) = PayoutsExecuted + 1

\* C3: for every participant p and month m the paid flag is set at most
\* once: once makeContribution(m) by p or recordLatePayment(p, m) has
\* succeeded, hasPaidForMonth(p, m) stays true and no later
\* makeContribution(m) by p or recordLatePayment(p, m) succeeds.
C3_PaidOnce ==
    [][\A p \in Addr, m \in MonthArgs :
          LET made == events'.ContributionMade[p][m] - events.ContributionMade[p][m]
              late == events'.LatePaymentRecorded[p][m]
                          - events.LatePaymentRecorded[p][m]
          IN /\ made + late \in {0, 1}
             /\ made + late = 1 =>
                    /\ ~participants[p].monthlyPayments[m]
                    /\ participants'[p].monthlyPayments[m]
             /\ participants[p].monthlyPayments[m] =>
                    /\ participants'[p].monthlyPayments[m]
                    /\ made + late = 0]_vars

\* A participant has contributed for one month and was recorded late for
\* another, and a payout has been executed since.
C3_Witness ==
    \E p \in Users :
        /\ events.ContributionMade[p][0] = 1
        /\ events.LatePaymentRecorded[p][1] = 1
        /\ hasPaidForMonth(p, 0)
        /\ hasPaidForMonth(p, 1)
        /\ currentMonth = 1

\* C4: currentMonth never decreases, changes in no step other than a
\* successful executePayout, and each successful executePayout raises it by
\* exactly 1.
C4_MonthAdvancesByPayout ==
    [][/\ PayoutStep => currentMonth' = currentMonth + 1
       /\ ~PayoutStep => currentMonth' = currentMonth]_vars

\* Both payouts of a two-month circle have been executed.
C4_Witness ==
    /\ currentMonth = 2
    /\ PayoutsExecuted = 2
    /\ status = "COMPLETED"

\* The number of approved accounts, the creator included.
Approved(parts) == Cardinality({x \in Users : parts[x].isActive})

\* An account whose join request is waiting for the coordinator.
Requested(x) == participants[x].participant = x /\ ~participants[x].isActive

\* C5: the circle goes from PENDING to ACTIVE exactly in the
\* approveParticipant step that brings the number of approved participants,
\* creator included, up to minParticipants, and never while fewer than
\* minParticipants participants are approved.
C5_ActiveAtMinApproved ==
    [][(status = "PENDING" /\ status' = "ACTIVE")
         <=> /\ Approved(participants') = Approved(participants) + 1
             /\ Approved(participants) < params'.minParticipants
             /\ Approved(participants') >= params'.minParticipants]_vars

\* C6: in a PENDING circle in which k participants have requested to join,
\* the coordinator can approve every requester, one after another, and once
\* none is left to approve and 1 + k >= minParticipants the circle is ACTIVE.
C6_EveryRequesterApprovable ==
    deployed =>
        /\ \A x \in Users :
               Requested(x) => ENABLED approveParticipant(coordinator, x)
        /\ (/\ \A x \in Users : ~Requested(x)
            /\ totalParticipants > 1
            /\ totalParticipants >= params.minParticipants)
               => status = "ACTIVE"

\* C7: requestToJoin fails whenever the caller already has a participant
\* record (pending or active), is the creator, the circle is full or it is
\* not PENDING; hence no identity appears twice in the member list.
C7_NoSecondRequest ==
    /\ \A x \in Users :
           (\/ participants[x].participant = x
            \/ x = params.creator
            \/ totalParticipants >= params.maxParticipants
            \/ status # "PENDING") => ~ENABLED requestToJoin(x)
    /\ \A i, j \in 1..Len(participantList) :
           i # j => participantList[i] # participantList[j]

\* The candidates of a proposal, by position, that are active, unpaid and
\* not in default.
Eligible(proposal, parts) ==
    {i \in 1..Len(proposal.candidateList) :
        LET x == proposal.candidateList[i]
        IN /\ parts[x].isActive
           /\ ~parts[x].hasReceivedPayout
           /\ ~parts[x].isInDefault}

\* Candidate i is ahead of candidate j: more votes, or as many votes and a
\* higher credit score, or equal in both and proposed no later.
Ahead(proposal, reg, i, j) ==
    LET x == proposal.candidateList[i]
        y == proposal.candidateList[j]
        vx == proposal.candidates[x].totalVotes
        vy == proposal.candidates[y].totalVotes
        cx == getCreditScore(reg, x)
        cy == getCreditScore(reg, y)
    IN \/ vx > vy
       \/ vx = vy /\ cx > cy
       \/ vx = vy /\ cx = cy /\ i <= j

\* C8: the winner chosen by executePayout is, among the candidates that are
\* active, unpaid and not in default, the one with the highest totalVotes;
\* among those tied on votes the one with the highest current credit score;
\* among those still tied the one proposed earliest.
C8_WinnerIsBest ==
    [][PayoutStep =>
          LET proposal == payoutProposals[currentMonth]
              winner == payoutProposals'[currentMonth].winner
              E == Eligible(proposal, participants)
          IN \E i \in E :
                 /\ proposal.candidateList[i] = winner
                 /\ \A j \in E : Ahead(proposal, creditRegistry, i, j)]_vars

\* A payout went to the candidate proposed second, who had more votes than
\* the candidate proposed first.
C8_Witness ==
    \E m \in MonthArgs :
        LET proposal == payoutProposals[m]
        IN /\ proposal.executed
           /\ Len(proposal.candidateList) = 2
           /\ proposal.winner = proposal.candidateList[2]
           /\ proposal.candidates[proposal.candidateList[2]].totalVotes >
                  proposal.candidates[proposal.candidateList[1]].totalVotes

\* C9: a participant on whom recordDefault has succeeded is not the winner
\* of any executePayout executed afterwards, even if proposed before the
\* default was recorded.
C9_DefaultedNeverWins ==
    [][PayoutStep =>
          events'.PayoutExecuted[PayoutsExecuted + 1].recipient
              \notin events.DefaultRecorded]_vars

\* The first month was paid out to the candidate proposed second while the
\* candidate proposed first was in default.  Both had contributed and nobody
\* had voted, so the first candidate's score before the default was at least
\* the winner's before the payout: the default is what kept the first
\* candidate from winning.
C9_Witness ==
    LET proposal == payoutProposals[0]
    IN /\ proposal.executed
       /\ Len(proposal.candidateList) = 2
       /\ proposal.winner = proposal.candidateList[2]
       /\ proposal.candidateList[1] \in events.DefaultRecorded
       /\ TotalVotes = 0
       /\ LatesRecorded = 0
       /\ currentMonth = 1
       /\ \A x \in Users : events.ContributionMade[x][1] = 0
       /\ events.ContributionMade[proposal.candidateList[1]][0] = 1
       /\ events.ContributionMade[proposal.candidateList[2]][0] = 1

\* C10: every successful executePayout transfers to the winner exactly
\* floor(monthlyContribution * (100 - reservePercentage) / 100) times the
\* number of active, non-defaulted participants at execution time.
C10_PayoutIsShareTimesParticipants ==
    [][PayoutStep =>
          events'.PayoutExecuted[PayoutsExecuted + 1].amount =
              ((params.monthlyContribution * (100 - params.reservePercentage))
                  \div 100)
              * Cardinality({x \in Addr : /\ participants[x].isActive
                                          /\ ~participants[x].isInDefault})]_vars

\* The share of one contribution that goes to the pool, the accounts that
\* are active and not in default, and the pool expected from them.
PoolShare ==
    (params.monthlyContribution * (100 - params.reservePercentage)) \div 100

ActiveAccounts == {x \in Addr : participants[x].isActive /\ ~participants[x].isInDefault}

ExpectedPool == PoolShare * Cardinality(ActiveAccounts)

NoDuplicateMembers ==
    \A i, j \in 1..Len(participantList) :
        i # j => participantList[i] # participantList[j]

\* C11: when, after the payout has been deducted, poolBalance exceeds the
\* expected pool by E and there are N active non-defaulted participants,
\* executePayout adds floor(E / N) to the withdrawable balance of each of
\* them and leaves poolBalance at expected pool + E mod N.  (Stated for the
\* payouts that are covered by poolBalance without borrowing, in circles
\* whose member list names no account twice.)
C11_ExcessSplitKeepsRemainder ==
    [][(/\ PayoutStep
        /\ NoDuplicateMembers
        /\ poolBalance >= events'.PayoutExecuted[PayoutsExecuted + 1].amount) =>
          LET amount == events'.PayoutExecuted[PayoutsExecuted + 1].amount
              N == Cardinality(ActiveAccounts)
              E == (poolBalance - amount) - ExpectedPool
          IN (N > 0 /\ E > 0) =>
                 /\ \A x \in ActiveAccounts :
                        participants'[x].withdrawableBalance =
                            participants[x].withdrawableBalance + (E \div N)
                 /\ poolBalance' = ExpectedPool + (E % N)]_vars

\* This step is a successful makeContribution(m) by p.
ContributionStep(p, m) ==
    events'.ContributionMade[p][m] = events.ContributionMade[p][m] + 1

\* The value attached to the contribution of this step: what the circle and
\* the reserve pool together hold more after it.
AttachedValue ==
    (circleEth' - circleEth)
        + (reservePool'.currentBalance - reservePool.currentBalance)

\* C12: a successful makeContribution with attached value v raises
\* poolBalance by v - floor(v * reservePercentage / 100), raises
\* totalReserveDeposited and the ReservePool's totalDeposited and
\* currentBalance each by floor(v * reservePercentage / 100), and applies one
\* on-time-payment adjustment to the caller's ledger profile.
C12_ContributionSplit ==
    [][\A p \in Addr, m \in MonthArgs :
          ContributionStep(p, m) =>
              LET v == AttachedValue
                  r == (v * params.reservePercentage) \div 100
                  old == getCreditProfile(creditRegistry, p)
                  new == creditRegistry'.creditProfiles[p]
              IN /\ v >= 0
                 /\ poolBalance' = poolBalance + v - r
                 /\ totalReserveDeposited' = totalReserveDeposited + r
                 /\ reservePool'.totalDeposited = reservePool.totalDeposited + r
                 /\ reservePool'.currentBalance = reservePool.currentBalance + r
                 /\ creditRegistry'.hasProfile[p]
                 /\ new = [old EXCEPT
                        !.onTimePayments = @ + 1,
                        !.creditScore =
                            IF @ + 10 > 1000 THEN 1000 ELSE @ + 10]]_vars

\* One full contribution of 3 has been made: 1 went to the reserve, 2 to
\* the pool, and the contributor's profile shows one on-time payment.
C12_Witness ==
    \E p \in Users :
        /\ events.ContributionMade[p][0] = 1
        /\ totalReserveDeposited = 1
        /\ reservePool.totalDeposited = 1
        /\ reservePool.currentBalance = 1
        /\ poolBalance = 2
        /\ creditRegistry.creditProfiles[p].onTimePayments = 1
        /\ creditRegistry.creditProfiles[p].creditScore = 310

ContributionsMade ==
    SumOver(Users, [x \in Users |->
        SumOver(MonthArgs, [m \in MonthArgs |-> events.ContributionMade[x][m]])])

C15_DefaultIsPermanent ==
    /\ [](\A p \in events.DefaultRecorded :
             /\ participants[p].isInDefault
             /\ creditRegistry.hasProfile[p]
             /\ creditRegistry.creditProfiles[p].hasDefaulted
             /\ \A m \in MonthArgs, x \in Addr :
                    /\ ~ENABLED proposePayout(p, x, m)
                    /\ ~ENABLED vote(p, m, x)
                    /\ ~ENABLED proposePayout(x, p, m))
    /\ [][\A p \in Addr :
             creditRegistry'.creditProfiles[p].defaults
                 > creditRegistry.creditProfiles[p].defaults =>
                 participants'[p].monthlyPayments = participants[p].monthlyPayments]_vars

\* A participant who contributed for the current month and was proposed as
\* its candidate is in default while the vote on that month is still open.
C15_Witness ==
    \E p \in events.DefaultRecorded :
        /\ status = "ACTIVE"
        /\ hasPaidForMonth(p, currentMonth)
        /\ events.ContributionMade[p][currentMonth] = 1
        /\ payoutProposals[currentMonth].candidates[p].isActive
        /\ payoutProposals[currentMonth].endTime > now
        /\ Len(payoutProposals[currentMonth].candidateList) = 2

\* The operations that have named an identity, counted from its counters.
TimesNamed(x) ==
    LET p == creditRegistry.creditProfiles[x]
    IN p.circlesJoined + p.circlesCompleted + p.onTimePayments
           + p.latePayments + p.defaults

FreshProfile == [ZeroProfile EXCEPT !.creditScore = BASE_CREDIT_SCORE]

\* C16: getCreditScore is 300 for every identity no ledger-mutating operation
\* has named, and the first operation naming an identity leaves a profile
\* with all counters 0 but the one the operation increments and the score
\* 300 adjusted by that operation.
C16_FirstOperationStartsAtBase ==
    /\ [](\A x \in Addr :
             TimesNamed(x) = 0 =>
                 /\ getCreditScore(creditRegistry, x) = BASE_CREDIT_SCORE
                 /\ getCreditProfile(creditRegistry, x) = FreshProfile)
    /\ [][\A x \in Addr :
             (TimesNamed(x) = 0 /\ creditRegistry'.creditProfiles[x]
                                       # creditRegistry.creditProfiles[x]) =>
                 creditRegistry'.creditProfiles[x] \in
                     {[FreshProfile EXCEPT !.onTimePayments = 1,
                          !.creditScore = BASE_CREDIT_SCORE + ON_TIME_PAYMENT_BONUS],
                      [FreshProfile EXCEPT !.latePayments = 1,
                          !.creditScore = BASE_CREDIT_SCORE - LATE_PAYMENT_PENALTY],
                      [FreshProfile EXCEPT !.defaults = 1, !.hasDefaulted = TRUE,
                          !.creditScore = BASE_CREDIT_SCORE - DEFAULT_PENALTY],
                      [FreshProfile EXCEPT !.circlesCompleted = 1,
                          !.creditScore = BASE_CREDIT_SCORE + CIRCLE_COMPLETION_BONUS],
                      [FreshProfile EXCEPT !.circlesJoined = 1]}]_vars

\* One identity has been named exactly once, by a late payment, and the
\* other not at all.
C16_Witness ==
    \E x, y \in LedgerIds :
        /\ TimesNamed(x) = 1
        /\ creditRegistry.creditProfiles[x].latePayments = 1
        /\ getCreditScore(creditRegistry, x) = BASE_CREDIT_SCORE - LATE_PAYMENT_PENALTY
        /\ TimesNamed(y) = 0
        /\ ~creditRegistry.hasProfile[y]

ScoreMin(a, b) == IF a < b THEN a ELSE b

ScoreMax(a, b) == IF a > b THEN a ELSE b

\* The step changes the profile of x to q and no other identity's profile.
OnlyProfile(x, q) ==
    /\ creditRegistry'.creditProfiles[x] = q
    /\ creditRegistry'.hasProfile[x]
    /\ \A y \in Addr \ {x} :
           /\ creditRegistry'.creditProfiles[y] = creditRegistry.creditProfiles[y]
           /\ creditRegistry'.hasProfile[y] = creditRegistry.hasProfile[y]

VotesCast(v, m) ==
    Cardinality({i \in 1..Len(payoutProposals[m].voters) :
                     payoutProposals[m].voters[i] = v})

\* C18: a participant has at most one successful vote per month: once v has
\* voted in month m, vote(m, c) by v fails for every candidate c; and a vote
\* succeeds only for an active caller not in default, a candidate proposed
\* for that month and before the voting deadline.
C18_OneVotePerMonth ==
    /\ [](\A v \in Addr, m \in MonthArgs :
             /\ VotesCast(v, m) <= 1
             /\ VotesCast(v, m) = 1 <=> payoutProposals[m].votes[v].hasVoted
             /\ payoutProposals[m].votes[v].hasVoted =>
                    \A c \in Addr : ~ENABLED vote(v, m, c))
    /\ [][\A v \in Addr, m \in MonthArgs :
             /\ payoutProposals[m].votes[v].hasVoted =>
                    payoutProposals'[m].votes[v] = payoutProposals[m].votes[v]
             /\ (~payoutProposals[m].votes[v].hasVoted
                     /\ payoutProposals'[m].votes[v].hasVoted) =>
                    LET c == payoutProposals'[m].votes[v].candidate
                    IN /\ participants[v].isActive
                       /\ ~participants[v].isInDefault
                       /\ payoutProposals[m].candidates[c].isActive
                       /\ \E i \in 1..Len(payoutProposals[m].candidateList) :
                              payoutProposals[m].candidateList[i] = c
                       /\ now < payoutProposals[m].endTime]_vars

\* v has voted in the current month; v is still an active participant not
\* in default, two candidates stand and the vote is still open.
C18_Witness ==
    \E v \in Users :
        /\ status = "ACTIVE"
        /\ payoutProposals[currentMonth].votes[v].hasVoted
        /\ participants[v].isActive
        /\ ~participants[v].isInDefault
        /\ Len(payoutProposals[currentMonth].candidateList) = 2
        /\ now < payoutProposals[currentMonth].endTime

\* The entries of month m's candidate list that name c.
TimesProposed(c, m) ==
    Cardinality({i \in 1..Len(payoutProposals[m].candidateList) :
                     payoutProposals[m].candidateList[i] = c})

\* C19: proposePayout(candidate, month) succeeds only if month is the current
\* month, the circle is ACTIVE, the proposer is an active participant not in
\* default, the candidate is active, unpaid and not in default and not yet
\* proposed for the month, and the month's voting deadline, if fixed, has
\* not passed; so no candidate list names an identity twice.
C19_ProposalConditions ==
    /\ [](\A c \in Addr, m \in MonthArgs :
             /\ TimesProposed(c, m) <= 1
             /\ TimesProposed(c, m) = 1 <=> payoutProposals[m].candidates[c].isActive)
    /\ [][\A m \in MonthArgs :
             Len(payoutProposals'[m].candidateList)
                 # Len(payoutProposals[m].candidateList) =>
                 LET list == payoutProposals'[m].candidateList
                     c == list[Len(list)]
                     proposer == payoutProposals'[m].candidates[c].proposer
                 IN /\ list = Append(payoutProposals[m].candidateList, c)
                    /\ m = currentMonth
                    /\ status = "ACTIVE"
                    /\ participants[proposer].isActive
                    /\ ~participants[proposer].isInDefault
                    /\ participants[c].isActive
                    /\ ~participants[c].hasReceivedPayout
                    /\ ~participants[c].isInDefault
                    /\ ~payoutProposals[m].candidates[c].isActive
                    /\ TimesProposed(c, m) = 0
                    /\ payoutProposals[m].endTime # 0 =>
                           /\ now < payoutProposals[m].endTime
                           /\ payoutProposals'[m].endTime = payoutProposals[m].endTime]_vars

\* Two candidates were proposed for the first month, and after its payout
\* the remaining unpaid participant is proposed for the second.
C19_Witness ==
    /\ status = "ACTIVE"
    /\ currentMonth = 1
    /\ Len(payoutProposals[0].candidateList) = 2
    /\ Len(payoutProposals[1].candidateList) = 1
    /\ ~participants[payoutProposals[1].candidateList[1]].hasReceivedPayout

\* The executePayout calls that have succeeded for month m.
PayoutsOfMonth(m) ==
    Cardinality({i \in 1..PayoutsExecuted : events.PayoutExecuted[i].month = m})

\* C20: executePayout(month) succeeds only if the month has a proposal, the
\* time is at or after the proposal's endTime, month is the current month
\* and the circle is ACTIVE; at most one executePayout ever succeeds for a
\* month, and a month's recorded winner never changes once set.
C20_OnePayoutPerMonth ==
    /\ [](\A m \in MonthArgs :
             /\ PayoutsOfMonth(m) <= 1
             /\ PayoutsOfMonth(m) = 1 <=> payoutProposals[m].executed
             /\ PayoutsOfMonth(m) = 1 <=> payoutProposals[m].winner # ZERO
             /\ payoutProposals[m].executed => ~ENABLED executePayout(m))
    /\ [][/\ PayoutStep =>
                LET m == events'.PayoutExecuted[PayoutsExecuted + 1].month
                IN /\ payoutProposals[m].endTime > 0
                   /\ now >= payoutProposals[m].endTime
                   /\ m = currentMonth
                   /\ status = "ACTIVE"
                   /\ payoutProposals'[m].winner =
                          events'.PayoutExecuted[PayoutsExecuted + 1].recipient
          /\ \A m \in MonthArgs :
                payoutProposals[m].winner # ZERO =>
                    /\ payoutProposals'[m].winner = payoutProposals[m].winner
                    /\ payoutProposals'[m].executed]_vars

\* The first month's payout is executed and its winner recorded; the second
\* month has a proposal whose voting period has ended, so that a payout is
\* due for it while none is possible for the first.
C20_Witness ==
    /\ status = "ACTIVE"
    /\ currentMonth = 1
    /\ payoutProposals[0].executed
    /\ payoutProposals[0].winner \in Users
    /\ payoutProposals[1].endTime > 0
    /\ now >= payoutProposals[1].endTime
    /\ ENABLED executePayout(1)

\* C21: in the system as deployed (CreditRegistry, ReservePool, then
\* LendingCircleFactory), createCircle by a creator of score >= 300 with
\* parameters within the credit limits succeeds, and afterwards the circle is
\* PENDING with the creator as its only, active participant, is counted in
\* the factory's indices and is a verified circle of the ReservePool.
C21_CreateCircleSucceeds ==
    /\ [](\A sender \in Users :
             (~deployed /\ getCreditScore(creditRegistry, sender) >= 300) =>
                 ENABLED createCircle(sender, 3, 2, 2, 3, 34, "WITHDRAWABLE"))
    /\ [][factory'.circles # factory.circles =>
             \E sender \in Users :
                 /\ factory'.circles = Append(factory.circles, CIRCLE)
                 /\ factory'.isCircle[CIRCLE]
                 /\ factory'.userCircles[sender]
                        = Append(factory.userCircles[sender], CIRCLE)
                 /\ status' = "PENDING"
                 /\ participantList' = <<sender>>
                 /\ participants'[sender].isActive
                 /\ totalParticipants' = 1
                 /\ reservePool'.verifiedCircles[CIRCLE]
                 /\ deposit(reservePool', CIRCLE, 1).ok
                 /\ withdraw(deposit(reservePool', CIRCLE, 1).pool,
                             CIRCLE, 1, CIRCLE, TRUE).ok]_vars

\* amount > credit * perCredit units of value, for the amounts of the model,
\* all of which are below one unit (one ether).
ExceedsUnits(amount, credit, perCredit) ==
    amount > 0 /\ credit * perCredit = 0

\* One of the gates of circle creation is shut for score cr.
GateShut(cr, mc, d, mn, mx, rp) ==
    \/ ExceedsUnits(mc, cr, 1)
    \/ mx > cr
    \/ ExceedsUnits(mc * mx * d, cr, 10)
    \/ mc = 0
    \/ d = 0
    \/ mn < 2
    \/ mx < mn
    \/ rp > 100

UnverifiedCallersFail ==
    \A sender \in PoolCallers, value \in 0..MaxPoolValue, recipient \in PoolTargets :
        ~reservePool.verifiedCircles[sender] =>
            /\ ~ENABLED PoolDeposit(sender, value)
            /\ ~ENABLED PoolReceive(sender, value)
            /\ ~ENABLED PoolWithdraw(sender, value, recipient)

\* What a successful withdraw does to the totals and to the recipient.  A
\* transfer to the pool itself is taken by its receive as a deposit.
WithdrawEffect(amount, recipient) ==
    /\ reservePool'.totalWithdrawn = reservePool.totalWithdrawn + amount
    /\ reservePool'.verifiedCircles = reservePool.verifiedCircles
    /\ IF recipient = POOL
       THEN /\ reservePool'.currentBalance = reservePool.currentBalance
            /\ reservePool'.totalDeposited = reservePool.totalDeposited + amount
       ELSE /\ reservePool'.currentBalance = reservePool.currentBalance - amount
            /\ reservePool'.totalDeposited = reservePool.totalDeposited
    /\ circleEth' = circleEth + (IF recipient = CIRCLE THEN amount ELSE 0)

\* Deposits and withdrawals are made by verified callers only, and a
\* withdrawal has the effect of WithdrawEffect.
PoolStepsByVerified ==
    \A sender \in PoolCallers, value \in 0..MaxPoolValue, recipient \in PoolTargets :
        /\ PoolDeposit(sender, value) => reservePool.verifiedCircles[sender]
        /\ PoolReceive(sender, value) => reservePool.verifiedCircles[sender]
        /\ PoolWithdraw(sender, value, recipient) =>
               /\ reservePool.verifiedCircles[sender]
               /\ WithdrawEffect(value, recipient)

C24_StatusOrder ==
    /\ [](status \in {"PENDING", "ACTIVE", "COMPLETED"})
    /\ [][status' # status =>
             \/ status = "PENDING" /\ status' = "ACTIVE"
             \/ status = "ACTIVE" /\ status' = "COMPLETED"]_vars

\* The circle has gone through both transitions: it was activated by an
\* approval and completed by its last payout.
C24_Witness ==
    /\ status = "COMPLETED"
    /\ PayoutsExecuted = params.durationInMonths
    /\ \E x \in Users \ {params.creator} : participants[x].isActive

\* C25: in every reachable state of a circle, also after its last payout,
\* currentMonth < durationInMonths.
C25_MonthBelowDuration ==
    deployed => currentMonth < params.durationInMonths

\* The step in which the circle becomes COMPLETED.
CompletionStep == status # "COMPLETED" /\ status' = "COMPLETED"

\* C26: a circle becomes COMPLETED exactly in the executePayout that raises
\* currentMonth to durationInMonths, and in that step every participant that
\* is active and not in default receives exactly one recordCircleCompletion
\* adjustment, and pending, rejected and defaulted identities none.
C26_CompletionBonusOnce ==
    [][/\ CompletionStep <=>
              (PayoutStep /\ currentMonth' = params.durationInMonths)
       /\ \A x \in Addr :
              creditRegistry'.creditProfiles[x].circlesCompleted =
                  creditRegistry.creditProfiles[x].circlesCompleted +
                      (IF /\ CompletionStep
                          /\ participants[x].isActive
                          /\ ~participants[x].isInDefault
                       THEN 1 ELSE 0)]_vars

\* The participants marked as having received their payout.
PaidOut == {x \in Addr : participants[x].hasReceivedPayout}

\* C27: while an executePayout is in its transfer to the winner, a nested
\* executePayout on the circle is rejected, so one outer call pays at most
\* one winner; and the in-progress flag _locked is clear in every state in
\* which no executePayout is executing.
C27_NoNestedPayout ==
    /\ [](payoutCall.active =>
              \A m \in MonthArgs : /\ ~ENABLED executePayout(m)
                                  /\ ~ENABLED executePayoutTransfer(m))
    /\ [](Cardinality(PaidOut) =
              Len(events.PayoutExecuted) + (IF payoutCall.active THEN 1 ELSE 0))
    /\ [][payoutCall.active => PaidOut' = PaidOut]_vars
    /\ [](_locked <=> payoutCall.active)

\* The second payout is in its transfer after the first has returned, and
\* the recipient has called back into the circle.
C27_Witness ==
    /\ payoutCall.active
    /\ _locked
    /\ payoutCall.month = 1
    /\ Len(events.PayoutExecuted) = 1
    /\ hasPaidForMonth(payoutCall.recipient, 1)

\* C28: during the transfer of executePayout to the winner, in the state where
\* the winner is marked paid and poolBalance is debited but the excess is not
\* distributed and currentMonth not advanced, no call of makeContribution,
\* proposePayout, vote, withdrawExcess, recordLatePayment or recordDefault
\* made by the recipient succeeds.
C28_NoCallDuringTransfer ==
    payoutCall.active =>
        LET recipient == payoutCall.recipient
        IN /\ \A month \in MonthArgs, value \in 0..params.monthlyContribution :
                  ~ENABLED makeContribution(recipient, month, value)
           /\ \A candidate \in Addr, month \in MonthArgs :
                  /\ ~ENABLED proposePayout(recipient, candidate, month)
                  /\ ~ENABLED vote(recipient, month, candidate)
           /\ ~ENABLED withdrawExcess(recipient)
           /\ \A participant \in Addr, month \in MonthArgs :
                  /\ ~ENABLED recordLatePayment(recipient, participant, month)
                  /\ ~ENABLED recordDefault(recipient, participant, month)

\* The amount executePayout would pay in the current state.
PayoutDue ==
    ((params.monthlyContribution * (100 - params.reservePercentage)) \div 100)
        * _getActiveParticipantCount(participants, participantList)

\* poolBalance is below the payout and the reserve is below the shortfall.
ReserveCannotCover ==
    /\ deployed
    /\ poolBalance < PayoutDue
    /\ reservePool.currentBalance < PayoutDue - poolBalance

\* C29: when poolBalance is below the payout amount and the ReservePool's
\* currentBalance is below the shortfall, executePayout fails for every
\* month and changes nothing in the circle, the ReservePool or the ledger.
C29_ShortReserveFails ==
    ReserveCannotCover => \A m \in MonthArgs : ~ENABLED executePayout(m)

\* The second month's payout is due to an eligible winner and the circle is
\* verified, but the pool is empty and the reserve holds less than the
\* shortfall.
C29_Witness ==
    LET proposal == payoutProposals[currentMonth]
        recipient == _selectWinner(proposal, participants, creditRegistry)
    IN /\ ReserveCannotCover
       /\ status = "ACTIVE"
       /\ currentMonth = 1
       /\ proposal.endTime > 0
       /\ now >= proposal.endTime
       /\ ~proposal.executed
       /\ recipient # ZERO
       /\ participants[recipient].isActive
       /\ ~participants[recipient].hasReceivedPayout
       /\ ~participants[recipient].isInDefault
       /\ reservePool.verifiedCircles[CIRCLE]
       /\ reservePool.currentBalance > 0

\* C30: approveParticipant, rejectParticipant, recordLatePayment and
\* recordDefault fail, changing nothing, for every caller other than the
\* coordinator, and the coordinator of a circle is its creator in every
\* reachable state.
C30_CoordinatorOnly ==
    /\ deployed => coordinator = params.creator
    /\ \A sender \in Addr :
           (~deployed \/ sender # coordinator) =>
               \A participant \in Addr :
                   /\ ~ENABLED approveParticipant(sender, participant)
                   /\ ~ENABLED rejectParticipant(sender, participant)
                   /\ \A month \in MonthArgs :
                          /\ ~ENABLED recordLatePayment(sender, participant, month)
                          /\ ~ENABLED recordDefault(sender, participant, month)

\* The coordinator has recorded a default in an active circle and may record
\* a late payment, while another active participant may do neither.
C30_Witness ==
    /\ status = "ACTIVE"
    /\ DefaultsRecorded >= 1
    /\ \E x \in Users \ {coordinator} : participants[x].isActive
    /\ \E participant \in Addr, month \in MonthArgs :
           /\ ENABLED recordLatePayment(coordinator, participant, month)
           /\ ENABLED recordDefault(coordinator, participant, month)

C32_UtilizationRate ==
    LET rate == getUtilizationRate(reservePool)
        deposited == reservePool.totalDeposited
        withdrawn == reservePool.totalWithdrawn
    IN /\ deposited = 0 => rate = 0
       /\ deposited > 0 =>
              /\ rate * deposited <= withdrawn * 10000
              /\ withdrawn * 10000 < (rate + 1) * deposited
       /\ rate <= 10000

\* One unit of three deposited has been withdrawn: the quotient is rounded
\* down.
C32_Witness ==
    /\ reservePool.totalDeposited = 3
    /\ reservePool.totalWithdrawn = 1
    /\ getUtilizationRate(reservePool) = 3333

\* The sum of the weights recorded for the votes cast for c in month m.
RecordedWeight(m, c) ==
    LET proposal == payoutProposals[m]
    IN SumOver(Addr, [v \in Addr |->
           IF proposal.votes[v].hasVoted /\ proposal.votes[v].candidate = c
           THEN proposal.votes[v].weight ELSE 0])

\* C33: for every month and candidate, totalVotes is the sum of the recorded
\* weights of the votes cast for that candidate in that month; each recorded
\* weight is the voter's credit score at the moment of the vote and is
\* positive, a voter whose score is 0 cannot vote, and later changes of a
\* voter's score change no tally.
C33_TallyIsSumOfWeights ==
    /\ [](\A m \in MonthArgs, c \in Addr :
             /\ payoutProposals[m].candidates[c].totalVotes = RecordedWeight(m, c)
             /\ payoutProposals[m].votes[c].hasVoted =>
                    payoutProposals[m].votes[c].weight > 0
             /\ \A v \in Addr :
                    getCreditScore(creditRegistry, v) = 0 => ~ENABLED vote(v, m, c))
    /\ [][\A m \in MonthArgs, v \in Addr :
             LET before == payoutProposals[m].votes[v]
                 after == payoutProposals'[m].votes[v]
             IN /\ (~before.hasVoted /\ after.hasVoted) =>
                       after.weight = getCreditScore(creditRegistry, v)
                /\ before.hasVoted => after = before
                /\ creditRegistry' # creditRegistry =>
                       payoutProposals'[m].candidates[v].totalVotes =
                           payoutProposals[m].candidates[v].totalVotes]_vars

\* Two votes of different weight were cast for one candidate, and the score
\* of one of the voters has changed since.
C33_Witness ==
    \E c \in Users, v, w \in Users :
        LET proposal == payoutProposals[0]
        IN /\ v # w
           /\ proposal.votes[v].hasVoted /\ proposal.votes[v].candidate = c
           /\ proposal.votes[w].hasVoted /\ proposal.votes[w].candidate = c
           /\ proposal.votes[v].weight # proposal.votes[w].weight
           /\ proposal.votes[v].weight # getCreditScore(creditRegistry, v)
           /\ proposal.candidates[c].totalVotes =
                  proposal.votes[v].weight + proposal.votes[w].weight

\* The deadline of month m has been set and has been reached.
DeadlineReached(m) ==
    payoutProposals[m].endTime > 0 /\ now >= payoutProposals[m].endTime

\* C34: a month's endTime is fixed by the first successful proposePayout for
\* the month and never changes afterwards; once the time has reached endTime
\* no proposePayout and no vote for the month succeeds, so the candidate list
\* and the tallies are those of the deadline.
C34_DeadlineIsFinal ==
    /\ [](\A m \in MonthArgs :
             DeadlineReached(m) =>
                 \A sender \in Addr, candidate \in Addr :
                     /\ ~ENABLED proposePayout(sender, candidate, m)
                     /\ ~ENABLED vote(sender, m, candidate))
    /\ [][\A m \in MonthArgs :
             LET before == payoutProposals[m]
                 after == payoutProposals'[m]
             IN /\ before.endTime = 0 /\ after.endTime # 0 =>
                       /\ after.endTime = now + votingPeriod
                       /\ Len(after.candidateList) = 1
                /\ before.endTime # 0 => after.endTime = before.endTime
                /\ DeadlineReached(m) =>
                       /\ after.candidateList = before.candidateList
                       /\ after.candidates = before.candidates
                       /\ after.votes = before.votes
                       /\ after.voters = before.voters]_vars

\* Month 0 was paid out after its deadline with two candidates and a vote,
\* and month 1 has a deadline of its own.
C34_Witness ==
    /\ payoutProposals[0].executed
    /\ Len(payoutProposals[0].candidateList) >= 2
    /\ Len(payoutProposals[0].voters) >= 1
    /\ payoutProposals[1].endTime > payoutProposals[0].endTime
    /\ DeadlineReached(1)

\* The identities that hold a participant record.
RecordHolders == {x \in Users : participants[x].participant = x}

\* C35: totalParticipants equals the length of the member list and the
\* number of distinct identities holding a participant record, and is at
\* most maxParticipants; rejectParticipant of a pending requester removes
\* that identity's record and list entry, lowers totalParticipants by 1 and
\* leaves the identity able to request to join again.
C35_MemberCount ==
    /\ [](deployed =>
             /\ totalParticipants = Len(participantList)
             /\ totalParticipants = Cardinality(RecordHolders)
             /\ totalParticipants <= params.maxParticipants)
    /\ [][\A sender \in Addr, p \in Addr :
             rejectParticipant(sender, p) =>
                 /\ RecordHolders' = RecordHolders \ {p}
                 /\ p \in RecordHolders
                 /\ \A i \in 1..Len(participantList') : participantList'[i] # p
                 /\ Len(participantList') = Len(participantList) - 1
                 /\ totalParticipants' = totalParticipants - 1
                 /\ status' = "PENDING"
                 /\ totalParticipants' < params.maxParticipants
                 /\ ~participants'[p].isActive
                 /\ p # params.creator]_vars

\* The sum of all participants' withdrawable balances.
TotalWithdrawable ==
    SumOver(Addr, [x \in Addr |-> participants[x].withdrawableBalance])

\* C36: a circle is solvent on its own books: poolBalance plus the sum of all
\* withdrawable balances is at most the value the circle holds, in
\* particular after an executePayout that borrowed from the ReservePool.
C36_Solvent ==
    deployed => poolBalance + TotalWithdrawable <= circleEth

\* C37: no value is stranded in a circle: the value the circle holds is at
\* most poolBalance plus the sum of all withdrawable balances, also after an
\* excess distribution with a remainder and after an AUTO_DEDUCT
\* contribution paid from a withdrawable balance.
C37_NothingStranded ==
    deployed => circleEth <= poolBalance + TotalWithdrawable

\* C38: whenever at least one proposed candidate of the current month is
\* active, unpaid and not in default, winner selection returns such a
\* candidate, whatever the candidates' vote totals and credit scores.
C38_WinnerAmongEligible ==
    (deployed /\ currentMonth \in MonthArgs) =>
        LET proposal == payoutProposals[currentMonth]
            eligible == {c \in Addr :
                            /\ \E i \in 1..Len(proposal.candidateList) :
                                   proposal.candidateList[i] = c
                            /\ participants[c].isActive
                            /\ ~participants[c].hasReceivedPayout
                            /\ ~participants[c].isInDefault}
        IN eligible # {} =>
               _selectWinner(proposal, participants, creditRegistry) \in eligible

\* The current month's deadline has passed, the month is unpaid and none of
\* its proposed candidates is active, unpaid and not in default.
StuckMonth ==
    /\ status = "ACTIVE"
    /\ currentMonth \in MonthArgs
    /\ DeadlineReached(currentMonth)
    /\ ~payoutProposals[currentMonth].executed
    /\ Eligible(payoutProposals[currentMonth], participants) = {}

\* A stuck month stays stuck: no step pays it out or makes it payable.
StuckIsPermanent ==
    [][StuckMonth =>
           /\ StuckMonth'
           /\ currentMonth' = currentMonth
           /\ \A m \in MonthArgs : ~ENABLED executePayout(m)]_vars

\* The pool, or the pool with the reserve, covers the payout that is due.
CanCoverPayout ==
    \/ poolBalance >= PayoutDue
    \/ /\ reservePool.verifiedCircles[CIRCLE]
       /\ reservePool.currentBalance >= PayoutDue - poolBalance

\* C39: from every ACTIVE state in which some participant is active, unpaid
\* and not in default and the payout can be covered, some sequence of
\* operations leads to a successful executePayout for currentMonth.  A stuck
\* month admits no such sequence (StuckIsPermanent), so the claim says that
\* no such state is a stuck month.
C39_NeverStuck ==
    (/\ status = "ACTIVE"
     /\ CanCoverPayout
     /\ \E x \in Users : /\ participants[x].isActive
                         /\ ~participants[x].hasReceivedPayout
                         /\ ~participants[x].isInDefault)
        => ~StuckMonth

\* The approved participants of the circle.
ApprovedMembers == {x \in Users : participants[x].isActive}

\* The recipients of the payouts executed so far.
Winners == {events.PayoutExecuted[i].recipient : i \in 1..PayoutsExecuted}

\* C40: each participant wins at most one executed payout, so the number of
\* executed payouts, and with it currentMonth, is at most the number of
\* approved participants, and a COMPLETED circle has at least
\* durationInMonths approved participants that were not in default when they
\* won.
C40_OneWinPerParticipant ==
    /\ [](/\ \A i, j \in 1..PayoutsExecuted :
                 events.PayoutExecuted[i].recipient =
                     events.PayoutExecuted[j].recipient => i = j
          /\ Winners \subseteq ApprovedMembers
          /\ PayoutsExecuted <= Cardinality(ApprovedMembers)
          /\ currentMonth = PayoutsExecuted
          /\ status = "COMPLETED" =>
                 params.durationInMonths <= Cardinality(Winners))
    /\ [][PayoutStep =>
              LET w == events'.PayoutExecuted[PayoutsExecuted + 1].recipient
              IN /\ w \in ApprovedMembers
                 /\ ~participants[w].isInDefault
                 /\ ~participants[w].hasReceivedPayout
                 /\ participants'[w].hasReceivedPayout]_vars

\* Both approved participants have won one payout each and the circle is
\* completed: the number of payouts equals the number of approved
\* participants.
C40_Witness ==
    /\ status = "COMPLETED"
    /\ Cardinality(Winners) = 2
    /\ Cardinality(ApprovedMembers) = 2
    /\ currentMonth = 2

====
